---- MODULE Spec2Model ----
(***************************************************************************)
(* Model of the HubSpot CSV synchronization engine:                        *)
(*   HighPerformanceProcessor   (core/processor.js)                        *)
(*   HighPerformanceOAuthClient (core/oauth-client.js)                     *)
(*   HighPerformanceIntegration (core/integration.js)                      *)
(*                                                                         *)
(* A JavaScript string is a sequence of one-character strings, so that     *)
(* trim(), toLowerCase(), parseInt() and the e-mail regular expression are *)
(* computed character by character as the code computes them.              *)
(***************************************************************************)
EXTENDS Integers, Sequences, FiniteSets, TLC

\* ------------------------------------------------------------------------
\* JavaScript values
\* ------------------------------------------------------------------------

\* The value of a property that is absent from an object (JS undefined).
Undefined == <<"undefined">>

\* The null returned by mapAccountFields when the payload has no id.
Null == <<"null">>

\* The JS booleans true and false where they are stored in a payload next
\* to strings.
JsTrue == <<"#true">>

JsFalse == <<"#false">>

IsWhitespace(c) == c \in {" ", "\t"}

\* String.prototype.trim: strip the whitespace at both ends.
RECURSIVE TrimLeft(_)
TrimLeft(s) ==
  IF s = <<>> THEN s
  ELSE IF IsWhitespace(Head(s)) THEN TrimLeft(Tail(s)) ELSE s

RECURSIVE TrimRight(_)
TrimRight(s) ==
  IF s = <<>> THEN s
  ELSE IF IsWhitespace(s[Len(s)]) THEN TrimRight(SubSeq(s, 1, Len(s) - 1)) ELSE s

Trim(s) == TrimRight(TrimLeft(s))

UpperLetters == <<"A","B","C","D","E","F","G","H","I","J","K","L","M",
                  "N","O","P","Q","R","S","T","U","V","W","X","Y","Z">>

LowerLetters == <<"a","b","c","d","e","f","g","h","i","j","k","l","m",
                  "n","o","p","q","r","s","t","u","v","w","x","y","z">>

LowerChar(c) ==
  IF \E i \in 1..Len(UpperLetters) : UpperLetters[i] = c
  THEN LowerLetters[CHOOSE i \in 1..Len(UpperLetters) : UpperLetters[i] = c]
  ELSE c

\* String.prototype.toLowerCase
ToLowerCase(s) == [i \in 1..Len(s) |-> LowerChar(s[i])]

Digits == <<"0","1","2","3","4","5","6","7","8","9">>

IsDigit(c) == \E i \in 1..Len(Digits) : Digits[i] = c

DigitValue(c) == (CHOOSE i \in 1..Len(Digits) : Digits[i] = c) - 1

\* The value of the longest prefix of digits of s, continuing from acc.
RECURSIVE DigitPrefix(_, _)
DigitPrefix(s, acc) ==
  IF s = <<>> \/ ~IsDigit(Head(s)) THEN acc
  ELSE DigitPrefix(Tail(s), 10 * acc + DigitValue(Head(s)))

\* The text parseInt reads its digits from: leading whitespace and one
\* optional sign removed.
ParseIntBody(v) ==
  LET t == TrimLeft(v)
  IN IF t # <<>> /\ Head(t) \in {"-", "+"} THEN Tail(t) ELSE t

\* parseInt(text) is NaN: no text, or no digit where the number starts.
ParseIntIsNaN(v) ==
  \/ v = Undefined
  \/ ParseIntBody(v) = <<>>
  \/ ~IsDigit(Head(ParseIntBody(v)))

\* parseInt(text) when it is a number.
ParseInt(v) ==
  IF TrimLeft(v) # <<>> /\ Head(TrimLeft(v)) = "-"
  THEN 0 - DigitPrefix(ParseIntBody(v), 0)
  ELSE DigitPrefix(ParseIntBody(v), 0)

\* parseInt(text) || 0 : NaN and 0 are falsy.
ParseIntOrZero(v) == IF ParseIntIsNaN(v) THEN 0 ELSE ParseInt(v)

\* !value for a string-or-undefined value.
Falsy(v) == v = Undefined \/ v = Null \/ v = <<>>

STR_true == <<"t","r","u","e">>

STR_false == <<"f","a","l","s","e">>

STR_MP == <<"M","P">>

STR_WIX == <<"W","I","X">>

STR_USAMPS == <<"U","S","A","M","P","S">>

\* ------------------------------------------------------------------------
\* HighPerformanceProcessor
\* ------------------------------------------------------------------------

\* parseCSV cleans the text of a cell: data[key].trim().replace(/"/g, '').
\* The quotes are removed after the trimming, so whitespace inside quotes
\* stays in the value.
RemoveQuotes(s) == SelectSeq(s, LAMBDA c : c # "\"")

parseCSVValue(text) == RemoveQuotes(Trim(text))

\* [^\s@] of the e-mail regular expression.
EmailChar(c) == ~IsWhitespace(c) /\ c # "@"

\* /^[^\s@]+@[^\s@]+\.[^\s@]+$/.test(email)
isValidEmail(email) ==
  \E i \in 1..Len(email) : \E j \in 1..Len(email) :
    /\ 1 < i /\ i + 1 < j /\ j < Len(email)
    /\ email[i] = "@"
    /\ email[j] = "."
    /\ \A k \in 1..Len(email) : k \notin {i, j} => EmailChar(email[k])

validateRowEmailOnly(row) ==
  /\ ~(Falsy(row.email) \/ Trim(row.email) = <<>>)
  /\ isValidEmail(row.email)

validateRowAnyEmail(row) ==
  /\ ~(Falsy(row.email) \/ Trim(row.email) = <<>>)
  /\ ~(Falsy(row.user_id) \/ Trim(row.user_id) = <<>>)

\* validateRow(row, ['email', 'user_id'])
validateRow(row) ==
  /\ ~(Falsy(row.email) \/ Trim(row.email) = <<>>)
  /\ ~(Falsy(row.user_id) \/ Trim(row.user_id) = <<>>)
  /\ (~Falsy(row.email) => isValidEmail(row.email))

convertToBooleanCaseSensitive(value) ==
  IF value = Undefined THEN FALSE
  ELSE value = STR_true \/ value = <<"1">>

\* convertToBoolean of a CSV value (a string, or undefined when absent).
convertToBoolean(value) ==
  IF value = Undefined THEN FALSE
  ELSE ToLowerCase(value) = STR_true \/ value = <<"1">>

STR_constructor == <<"c","o","n","s","t","r","u","c","t","o","r">>

STR_valueOf == <<"v","a","l","u","e","O","f">>

\* The functions the object literal accountTypeMapping inherits from
\* Object.prototype under these keys (values that are not strings).
FunctionObject == <<"[Function: Object]">>

FunctionValueOf == <<"[Function: valueOf]">>

\* accountTypeMapping[userType] || userType: the lookup also finds the
\* properties the object literal inherits.
mapAccountType(userType) ==
  IF userType = STR_MP THEN STR_MP
  ELSE IF userType = STR_WIX THEN STR_USAMPS
  ELSE IF userType = STR_constructor THEN FunctionObject
  ELSE IF userType = STR_valueOf THEN FunctionValueOf
  ELSE userType

\* The cleaning loop of mapAccountFields / mapContactFields: a key whose
\* value is undefined, null or '' is left out, a string value is trimmed.
CleanValue(v) == IF v = Undefined \/ v = Null \/ v = <<>> THEN Undefined ELSE Trim(v)

mapContactFields(row) ==
  [ email     |-> CleanValue(row.email),
    user_type |-> CleanValue(mapAccountType(row.user_type)) ]

\* id: row.user_id of the account mapping, after the cleaning loop.
AccountId(row) == CleanValue(row.user_id)

\* The cleaned account object, before the test on its id.
CleanedAccount(row) ==
  [ id                    |-> AccountId(row),
    account_type          |-> CleanValue(mapAccountType(row.user_type)),
    active_subscription   |-> IF convertToBoolean(row.active_sub) THEN STR_true ELSE STR_false,
    weekly_subscriptions  |-> ParseIntOrZero(row.weekly_sub_count),
    monthly_subscriptions |-> ParseIntOrZero(row.monthly_sub_count),
    daily_subscriptions   |-> ParseIntOrZero(row.daily_sub_count),
    ever_had_subscription |-> IF convertToBoolean(row.active_sub) THEN STR_true ELSE STR_false ]

\* cleanedAccount.id ? cleanedAccount : null
mapAccountFields(row) ==
  IF Falsy(AccountId(row)) THEN Null ELSE CleanedAccount(row)

filterRecordsForProcessing(rows) ==
  [ activeRecords         |-> SelectSeq(rows, LAMBDA r : validateRow(r) /\ convertToBoolean(r.active_sub)),
    inactiveRecords       |-> SelectSeq(rows, LAMBDA r : validateRow(r) /\ ~convertToBoolean(r.active_sub)),
    allRecordsForCreation |-> SelectSeq(rows, LAMBDA r : validateRow(r)),
    totalReduction        |-> 0 ]

\* mapAccountFields(row) returned an account (not null).
HasAccountData(row) == ~Falsy(AccountId(row))

\* The row is skipped by categorizeRecordsByExistence (the early return;
\* mapContactFields always returns an object, which is truthy).
CategorizeSkips(row) == ~HasAccountData(row)

\* accountExists and contactExists of categorizeRecordsByExistence:
\* existingAccountIds.has(accountData.id), existingContactEmails.has(contactData.email)
AccountExists(row, existingAccountIds) == AccountId(row) \in existingAccountIds

ContactExists(row, existingContactEmails) == mapContactFields(row).email \in existingContactEmails

\* The object categorizeRecordsByExistence returns.
StrategyOf(recordsToCreate, recordsToUpdate) ==
  [ toCreate        |-> recordsToCreate,
    toUpdate        |-> recordsToUpdate,
    totalOperations |-> Len(recordsToCreate) + Len(recordsToUpdate) ]

categorizeRecordsByExistenceBothMissing(allRecords, existingAccountIds, existingContactEmails) ==
  LET create(r) == /\ ~CategorizeSkips(r)
                   /\ (~AccountExists(r, existingAccountIds) /\ ~ContactExists(r, existingContactEmails))
      update(r) == /\ ~CategorizeSkips(r)
                   /\ ~(~AccountExists(r, existingAccountIds) /\ ~ContactExists(r, existingContactEmails))
  IN StrategyOf(SelectSeq(allRecords, create), SelectSeq(allRecords, update))

categorizeRecordsByExistence(allRecords, existingAccountIds, existingContactEmails) ==
  LET create(r) == /\ ~CategorizeSkips(r)
                   /\ (~AccountExists(r, existingAccountIds) \/ ~ContactExists(r, existingContactEmails))
      update(r) == /\ ~CategorizeSkips(r)
                   /\ ~(~AccountExists(r, existingAccountIds) \/ ~ContactExists(r, existingContactEmails))
  IN StrategyOf(SelectSeq(allRecords, create), SelectSeq(allRecords, update))

\* const batchSize = 100 of groupForBatchProcessing.
batchSize == 100

BatchOfAccountsOnly(chunk, start, total) ==
  LET withAccount == SelectSeq(chunk, HasAccountData)
  IN [ accounts     |-> [i \in 1..Len(withAccount) |-> mapAccountFields(withAccount[i])],
       contacts     |-> [i \in 1..Len(withAccount) |-> mapContactFields(withAccount[i])],
       associations |-> [i \in 1..Len(withAccount) |->
                           [ accountId    |-> mapAccountFields(withAccount[i]).id,
                             contactEmail |-> mapContactFields(withAccount[i]).email ]],
       batchNumber  |-> (start \div batchSize) + 1,
       totalBatches |-> (total + batchSize - 1) \div batchSize ]

BatchOfCrossedPairs(chunk, start, total) ==
  LET withAccount == SelectSeq(chunk, HasAccountData)
  IN [ accounts     |-> [i \in 1..Len(withAccount) |-> mapAccountFields(withAccount[i])],
       contacts     |-> [i \in 1..Len(chunk) |-> mapContactFields(chunk[i])],
       associations |-> [i \in 1..Len(withAccount) |->
                           [ accountId    |-> mapAccountFields(withAccount[i]).id,
                             contactEmail |-> mapContactFields(chunk[i]).email ]],
       batchNumber  |-> (start \div batchSize) + 1,
       totalBatches |-> (total + batchSize - 1) \div batchSize ]

\* The accounts, contacts and association pairs of one chunk of records.
BatchOf(chunk, start, total) ==
  LET withAccount == SelectSeq(chunk, HasAccountData)
  IN [ accounts     |-> [i \in 1..Len(withAccount) |-> mapAccountFields(withAccount[i])],
       contacts     |-> [i \in 1..Len(chunk) |-> mapContactFields(chunk[i])],
       associations |-> [i \in 1..Len(withAccount) |->
                           [ accountId    |-> mapAccountFields(withAccount[i]).id,
                             contactEmail |-> mapContactFields(withAccount[i]).email ]],
       batchNumber  |-> (start \div batchSize) + 1,
       totalBatches |-> (total + batchSize - 1) \div batchSize ]

\* groupForBatchProcessing: the loop for (i = 0; i < length; i += batchSize),
\* from offset i on.
RECURSIVE GroupFrom(_, _)
GroupFrom(records, i) ==
  IF i >= Len(records) THEN <<>>
  ELSE <<BatchOf(SubSeq(records, i + 1, IF i + batchSize < Len(records) THEN i + batchSize ELSE Len(records)),
                 i, Len(records))>>
       \o GroupFrom(records, i + batchSize)

groupForBatchProcessing(records) == GroupFrom(records, 0)

DeactivationEntryKeepsActive(row) ==
  [ user_id               |-> row.user_id,
    active_subscription   |-> JsTrue,
    weekly_subscriptions  |-> ParseIntOrZero(row.weekly_sub_count),
    monthly_subscriptions |-> ParseIntOrZero(row.monthly_sub_count),
    daily_subscriptions   |-> ParseIntOrZero(row.daily_sub_count) ]

\* The value createDeactivationMap stores for a row.
DeactivationEntry(row) ==
  [ user_id               |-> row.user_id,
    active_subscription   |-> JsFalse,
    weekly_subscriptions  |-> ParseIntOrZero(row.weekly_sub_count),
    monthly_subscriptions |-> ParseIntOrZero(row.monthly_sub_count),
    daily_subscriptions   |-> ParseIntOrZero(row.daily_sub_count) ]

\* createDeactivationMap: user_id -> update data, for the rows with a truthy
\* user_id; a later row with the same user_id replaces the earlier one (Map.set).
createDeactivationMap(inactiveRecords) ==
  [ k \in {inactiveRecords[i].user_id : i \in {j \in 1..Len(inactiveRecords) : ~Falsy(inactiveRecords[j].user_id)}} |->
      DeactivationEntry(
        inactiveRecords[CHOOSE i \in 1..Len(inactiveRecords) :
                          /\ inactiveRecords[i].user_id = k
                          /\ \A j \in 1..Len(inactiveRecords) : inactiveRecords[j].user_id = k => j <= i]) ]

\* ------------------------------------------------------------------------
\* Bounds of the model and the inputs it enumerates
\* ------------------------------------------------------------------------

\* Longest enumerated list of input rows of a run.
MaxRows == 2

\* Longest enumerated list of rows the processor functions are applied to.
MaxRecords == 3

\* Length of the long input (one row repeated) that plans a sixth batch.
LoadRows == 501

\* Number of remote requests the environment may reject in one run
\* (a 401, another error, or a failed token refresh).
MaxFaults == 2

\* Only the first MaxAssocFail association calls of a batch may be rejected.
MaxAssocFail == 1

EMAIL_1 == <<"a","@","b",".","c">>

EMAIL_2 == <<"d","@","b",".","c">>

Row(user_id, email, user_type, active_sub, weekly) ==
  [ user_id |-> user_id, email |-> email, user_type |-> user_type, active_sub |-> active_sub,
    weekly_sub_count |-> weekly, monthly_sub_count |-> <<"0">>, daily_sub_count |-> Undefined ]

RowActive == Row(<<"1">>, EMAIL_1, STR_MP, <<"T","R","U","E">>, <<"2">>)

RowInactive == Row(<<"2">>, EMAIL_2, STR_WIX, STR_false, <<"0">>)

\* The user_id cell holds "(space)1" between literal quotes.
RowPadded == Row(parseCSVValue(<<"\"", " ", "1", "\"">>), EMAIL_1, STR_MP, <<"1">>, <<"7","x">>)

\* The user_id cell holds one space between literal quotes.
RowNoUserId == Row(parseCSVValue(<<"\"", " ", "\"">>), EMAIL_2, STR_MP, STR_true, <<>>)

RowBadEmail == Row(<<"2">>, <<"n","o","t","-","a","n","-","e","m","a","i","l">>, Undefined, STR_true, <<"1">>)

RowNoColumns == Row(Undefined, Undefined, STR_MP, STR_true, <<"1">>)

\* The rows the processor functions are applied to.
RowChoices == {RowActive, RowInactive, RowPadded, RowNoUserId, RowBadEmail, RowNoColumns}

RowLists == UNION {[1..n -> RowChoices] : n \in 0..MaxRecords}

\* The rows of the inputs of a run: the valid rows and one invalid row.
RunRowChoices == {RowActive, RowInactive, RowPadded, RowNoColumns}

RunRowLists == UNION {[1..n -> RunRowChoices] : n \in 0..MaxRows}

\* The long input: LoadRows times the same valid row.
LoadInput == [i \in 1..LoadRows |-> RowActive]

\* The decimal text of a natural number.
RECURSIVE NumberText(_)
NumberText(n) ==
  IF n < 10 THEN <<Digits[n + 1]>>
  ELSE NumberText(n \div 10) \o <<Digits[(n % 10) + 1]>>

\* Number of inactive rows of the input whose accounts are all active in
\* the remote store.
DeactivationRows == 101

EmailOf(i) == <<"u">> \o NumberText(i) \o <<"@", "b", ".", "c">>

\* DeactivationRows valid inactive rows with user_ids and emails of their own.
DeactivationLoadInput ==
  [i \in 1..DeactivationRows |-> Row(NumberText(i), EmailOf(i), STR_WIX, STR_false, NumberText(i % 3))]

\* The inputs that are run with a loaded token and without rejections by
\* the remote store.
LongInputs == {LoadInput, DeactivationLoadInput}

\* ------------------------------------------------------------------------
\* State
\* ------------------------------------------------------------------------

VARIABLES
  entry,         \* the method that was called: "processCsv" or "processCSVHighPerformance"
  rows,          \* the parsed rows (the result of parseCSV)
  pc,            \* where the run is
  hasTokens,     \* this.hubspot.tokens holds an access token
  client,        \* this.hubspot.client is initialized
  faults,        \* rejections the environment may still inject
  remote,        \* the remote store: accounts, contacts, associations, id counter
  calls,         \* the invocations of client operations: call id -> call record
  filterResult,  \* result of filterRecordsForProcessing
  existingData,  \* result of getExistingDataBatch
  strategy,      \* result of categorizeRecordsByExistence
  credential,    \* the access token in this.tokens, in this.client and in the token file
  batches,       \* the processSingleBatch invocations, in allBatchPromises order
  wave,          \* i of processBatchesWithConcurrency; results of the settled waves
  stats,         \* this.stats
  outcome,       \* what the called method returned or threw
  runNo,         \* number of the run on this integration object
  hist           \* history: writes issued, per-batch contributions, failures seen

vars == <<entry, rows, pc, hasTokens, client, faults, remote, calls, filterResult,
          existingData, strategy, batches, wave, stats, outcome, runNo, hist, credential>>

\* An access token: the n-th one the token endpoint issued, 0 for the one
\* the token file held when it was loaded.
Token(n) == <<"token", n>>

\* The credential after loadTokens: this.tokens.access_token, the token the
\* API client is built with by initializeClient, the token in the token
\* file, the number of tokens the endpoint issued since, and the pending
\* fs.writeFile calls on the token file (invocation -> token).
LoadedCredential ==
  [ tokens |-> Token(0), client |-> Token(0), tokenFile |-> Token(0), issued |-> 0, writing |-> <<>> ]

\* refreshAccessToken ran from its fetch to its end without another
\* invocation in between: saveTokens, then initializeClient.
RefreshedCredential(c) ==
  [ c EXCEPT !.tokens = Token(c.issued + 1), !.tokenFile = Token(c.issued + 1),
             !.client = Token(c.issued + 1), !.issued = c.issued + 1 ]

\* this.stats as the constructor sets it (totalProcessingTime is a wall-clock
\* reading and is left out).
InitialStats ==
  [ accountsCreated |-> 0, accountsUpdated |-> 0, contactsCreated |-> 0, contactsUpdated |-> 0,
    associationsCreated |-> 0, errors |-> 0, batchesProcessed |-> 0 ]

EmptyRemote == [ accounts |-> <<>>, contacts |-> <<>>, associations |-> {}, nextId |-> 1 ]

\* Remote identifiers.
HsId(n) == <<"hs", n>>

RemoteAccount(n, bizId, active) == [ id |-> HsId(n), bizId |-> bizId, active |-> active ]

RemoteContact(n, email) == [ id |-> HsId(n), email |-> email ]

\* The remote states a run may start from.
RemoteChoices ==
  { EmptyRemote,
    [ accounts |-> <<RemoteAccount(1, <<"1">>, TRUE)>>, contacts |-> <<RemoteContact(2, EMAIL_1)>>,
      associations |-> {}, nextId |-> 3 ],
    [ accounts |-> <<RemoteAccount(1, <<"2">>, TRUE)>>, contacts |-> <<>>,
      associations |-> {}, nextId |-> 2 ],
    [ accounts |-> <<RemoteAccount(1, <<"2">>, TRUE), RemoteAccount(2, <<"1">>, FALSE)>>,
      contacts |-> <<RemoteContact(3, EMAIL_2), RemoteContact(4, EMAIL_1)>>,
      associations |-> {}, nextId |-> 5 ] }

EmptyHist ==
  [ writes      |-> {},      \* kinds of write requests sent to the remote store
    readFailed  |-> FALSE,   \* the read phase ended with an error
    readOk      |-> FALSE,   \* the read phase returned the existence sets
    deactFailed |-> FALSE,   \* the deactivation step ended with an error
    base        |-> InitialStats ]  \* this.stats when processBatchOperations started

\* ------------------------------------------------------------------------
\* The remote store (the CRM behind the HubSpot API client)
\* ------------------------------------------------------------------------

\* chunkSize of batchSearchAccounts / batchSearchContacts.
chunkSize == 100

\* limit: 100 of every search request: the size of one result page.
searchLimit == 100

Min(a, b) == IF a < b THEN a ELSE b

SeqToSet(seq) == {seq[i] : i \in 1..Len(seq)}

FirstPage(matches) == SubSeq(matches, 1, Min(Len(matches), searchLimit))

\* doSearch with filter id IN chunk, properties ['id']: one page of results.
SearchAccountsPage(store, chunk) ==
  LET matches == SelectSeq(store.accounts, LAMBDA a : a.bizId \in SeqToSet(chunk))
  IN [i \in 1..Len(FirstPage(matches)) |->
        [ id |-> FirstPage(matches)[i].id, properties |-> [ id |-> FirstPage(matches)[i].bizId ] ]]

\* doSearch with filter email IN chunk: one page of results.
SearchContactsPage(store, chunk) ==
  LET matches == SelectSeq(store.contacts, LAMBDA c : c.email \in SeqToSet(chunk))
  IN [i \in 1..Len(FirstPage(matches)) |->
        [ id |-> FirstPage(matches)[i].id, properties |-> [ email |-> FirstPage(matches)[i].email ] ]]

\* doSearch with filter active_subscription EQ 'true': the page after the
\* cursor, and whether the response carries paging.next.
ActiveMatches(store) == SelectSeq(store.accounts, LAMBDA a : a.active)

SearchActivePage(store, after) ==
  LET page == SubSeq(ActiveMatches(store), after + 1, Min(Len(ActiveMatches(store)), after + searchLimit))
  IN [i \in 1..Len(page) |-> [ id |-> page[i].id, properties |-> [ id |-> page[i].bizId ] ]]

SearchActiveHasNext(store, after) == Len(ActiveMatches(store)) > after + searchLimit

\* batchApi.create of accounts: every input becomes a new remote record.
CreateAccountsResults(store, inputs) ==
  [i \in 1..Len(inputs) |-> [ id |-> HsId(store.nextId + i - 1), properties |-> inputs[i] ]]

RemoteAfterCreateAccounts(store, inputs) ==
  [ store EXCEPT
      !.accounts = store.accounts \o
        [i \in 1..Len(inputs) |->
           RemoteAccount(store.nextId + i - 1, inputs[i].id,
                         inputs[i].active_subscription \in {JsTrue, STR_true})],
      !.nextId = store.nextId + Len(inputs) ]

\* batchApi.create of contacts.
CreateContactsResults(store, inputs) ==
  [i \in 1..Len(inputs) |-> [ id |-> HsId(store.nextId + i - 1), properties |-> inputs[i] ]]

RemoteAfterCreateContacts(store, inputs) ==
  [ store EXCEPT
      !.contacts = store.contacts \o
        [i \in 1..Len(inputs) |-> RemoteContact(store.nextId + i - 1, inputs[i].email)],
      !.nextId = store.nextId + Len(inputs) ]

\* batchApi.update of accounts: inputs {id: hubspotId, properties: updateData}.
UpdateAccountsResults(store, updates) ==
  [i \in 1..Len(updates) |-> [ id |-> updates[i].hubspotId, properties |-> updates[i].updateData ]]

RemoteAfterUpdateAccounts(store, updates) ==
  [ store EXCEPT
      !.accounts =
        [k \in 1..Len(store.accounts) |->
           IF \E i \in 1..Len(updates) : updates[i].hubspotId = store.accounts[k].id
           THEN [ store.accounts[k] EXCEPT
                    !.active = (CHOOSE i \in 1..Len(updates) : updates[i].hubspotId = store.accounts[k].id) \in
                               {i \in 1..Len(updates) : updates[i].updateData.active_subscription \in {JsTrue, STR_true}} ]
           ELSE store.accounts[k]] ]

RemoteHasAccount(store, id) == \E k \in 1..Len(store.accounts) : store.accounts[k].id = id

RemoteHasContact(store, id) == \E k \in 1..Len(store.contacts) : store.contacts[k].id = id

\* ------------------------------------------------------------------------
\* HighPerformanceOAuthClient: one invocation of an operation that calls the
\* remote store
\* ------------------------------------------------------------------------

ErrNoToken == "No access token available"

ErrRefresh == "Token refresh failed"

ErrRemote == "HubSpot API error"

WriteOps == {"batchCreateAccounts", "batchCreateContacts", "batchUpdateAccounts"}

CallId(op, b) == <<op, b>>

\* The invocation up to its first remote request: ensureValidToken (which
\* throws when no token is loaded), the empty-input return, the request.
NewCall(op, args, hasClient, tokensLoaded) ==
  [ op |-> op, args |-> args, off |-> 0, acc |-> <<>>, res |-> <<>>, refreshes |-> 0,
    st  |-> IF ~hasClient /\ ~tokensLoaded THEN "err"
            ELSE IF op # "searchActiveAccounts" /\ args = <<>> THEN "ok"
            ELSE "sent",
    err |-> IF ~hasClient /\ ~tokensLoaded THEN ErrNoToken ELSE "" ]

\* The invocation re-entered by the catch block after refreshAccessToken:
\* return await this.<operation>(args).
RetriedCall(c) ==
  [ c EXCEPT !.off = 0, !.acc = <<>>, !.refreshes = c.refreshes + 1,
             !.st = IF c.op # "searchActiveAccounts" /\ c.args = <<>> THEN "ok" ELSE "sent" ]

\* The call after the remote store answered its pending request.
CallAfterResponse(c, store) ==
  IF c.op = "batchSearchAccounts" THEN
    LET chunk == SubSeq(c.args, c.off + 1, Min(Len(c.args), c.off + chunkSize))
        all   == c.acc \o SearchAccountsPage(store, chunk)
    IN IF c.off + chunkSize < Len(c.args)
       THEN [c EXCEPT !.off = c.off + chunkSize, !.acc = all]
       ELSE [c EXCEPT !.st = "ok", !.acc = all, !.res = all]
  ELSE IF c.op = "batchSearchContacts" THEN
    LET chunk == SubSeq(c.args, c.off + 1, Min(Len(c.args), c.off + chunkSize))
        all   == c.acc \o SearchContactsPage(store, chunk)
    IN IF c.off + chunkSize < Len(c.args)
       THEN [c EXCEPT !.off = c.off + chunkSize, !.acc = all]
       ELSE [c EXCEPT !.st = "ok", !.acc = all, !.res = all]
  ELSE IF c.op = "searchActiveAccounts" THEN
    LET all == c.acc \o SearchActivePage(store, c.off)
    IN IF SearchActiveHasNext(store, c.off)
       THEN [c EXCEPT !.off = c.off + searchLimit, !.acc = all]
       ELSE [c EXCEPT !.st = "ok", !.acc = all, !.res = all]
  ELSE IF c.op = "batchCreateAccounts" THEN
    [c EXCEPT !.st = "ok", !.res = CreateAccountsResults(store, c.args)]
  ELSE IF c.op = "batchCreateContacts" THEN
    [c EXCEPT !.st = "ok", !.res = CreateContactsResults(store, c.args)]
  ELSE
    [c EXCEPT !.st = "ok", !.res = UpdateAccountsResults(store, c.args)]

\* The remote store after it served the pending request of the call.
RemoteAfterResponse(c, store) ==
  IF c.op = "batchCreateAccounts" THEN RemoteAfterCreateAccounts(store, c.args)
  ELSE IF c.op = "batchCreateContacts" THEN RemoteAfterCreateContacts(store, c.args)
  ELSE IF c.op = "batchUpdateAccounts" THEN RemoteAfterUpdateAccounts(store, c.args)
  ELSE store

\* The items the pending request of a call carries: the values of the IN
\* filter of a lookup (accountIds.slice(i, i + chunkSize)), the inputs of a
\* bulk create or bulk update; the search for active accounts carries none.
RequestItems(c) ==
  IF c.op \in {"batchSearchAccounts", "batchSearchContacts"}
  THEN SubSeq(c.args, c.off + 1, Min(Len(c.args), c.off + chunkSize))
  ELSE IF c.op = "searchActiveAccounts" THEN <<>>
  ELSE c.args

\* The kinds of write requests sent so far, after call c sent a request.
WritesWith(c, writes) ==
  IF c.st = "sent" /\ c.op \in WriteOps THEN writes \cup {c.op} ELSE writes

\* ------------------------------------------------------------------------
\* Actions of the client operations
\* ------------------------------------------------------------------------

\* The remote store answers the pending request of a call successfully.
RemoteRespond(id) ==
  /\ calls[id].st = "sent"
  /\ calls' = [calls EXCEPT ![id] = CallAfterResponse(calls[id], remote)]
  /\ remote' = RemoteAfterResponse(calls[id], remote)
  /\ UNCHANGED <<credential, entry, rows, pc, hasTokens, client, faults, filterResult, existingData,
                 strategy, batches, wave, stats, outcome, runNo, hist>>

\* The remote store rejects the pending request with 401: the catch block
\* starts refreshAccessToken.
RemoteUnauthorized(id) ==
  /\ calls[id].st = "sent"
  /\ faults > 0
  /\ faults' = faults - 1
  /\ calls' = [calls EXCEPT ![id].st = "refresh"]
  /\ UNCHANGED <<credential, entry, rows, pc, hasTokens, client, remote, filterResult, existingData,
                 strategy, batches, wave, stats, outcome, runNo, hist>>

\* The remote store rejects the pending request with another error: the
\* catch block rethrows it.
RemoteError(id) ==
  /\ calls[id].st = "sent"
  /\ faults > 0
  /\ faults' = faults - 1
  /\ calls' = [calls EXCEPT ![id].st = "err", ![id].err = ErrRemote]
  /\ UNCHANGED <<credential, entry, rows, pc, hasTokens, client, remote, filterResult, existingData,
                 strategy, batches, wave, stats, outcome, runNo, hist>>

\* refreshAccessToken succeeded: the operation invokes itself again.
RefreshDone(id) ==
  /\ calls[id].st = "refresh"
  /\ calls' = [calls EXCEPT ![id] = RetriedCall(calls[id])]
  /\ credential' = RefreshedCredential(credential)
  /\ hist' = [hist EXCEPT !.writes = WritesWith(RetriedCall(calls[id]), hist.writes)]
  /\ UNCHANGED <<entry, rows, pc, hasTokens, client, faults, remote, filterResult, existingData,
                 strategy, batches, wave, stats, outcome, runNo>>

\* refreshAccessToken threw (the token endpoint answered not ok): the error
\* leaves the catch block.
RefreshFailed(id) ==
  /\ calls[id].st = "refresh"
  /\ faults > 0
  /\ faults' = faults - 1
  /\ calls' = [calls EXCEPT ![id].st = "err", ![id].err = ErrRefresh]
  /\ UNCHANGED <<credential, entry, rows, pc, hasTokens, client, remote, filterResult, existingData,
                 strategy, batches, wave, stats, outcome, runNo, hist>>

\* ------------------------------------------------------------------------
\* HighPerformanceIntegration
\* ------------------------------------------------------------------------

\* The distinct truthy values of a list, in order of first appearance
\* (Array.from of the Set filled by forEach).
UniqueTruthy(values) ==
  LET first == SelectSeq([i \in 1..Len(values) |-> i],
                         LAMBDA i : /\ ~Falsy(values[i])
                                    /\ \A j \in 1..(i - 1) : values[j] # values[i])
  IN [k \in 1..Len(first) |-> values[first[k]]]

\* accountIds and contactEmails that getExistingDataBatch searches for.
SearchedAccountIds(allRecords) ==
  UniqueTruthy([i \in 1..Len(allRecords) |-> allRecords[i].user_id])

SearchedContactEmails(allRecords) ==
  UniqueTruthy([i \in 1..Len(allRecords) |-> allRecords[i].email])

\* The lookup sets getExistingDataBatch builds from the search results.
ExistingDataOf(existingAccounts, existingContacts) ==
  [ accountIds    |-> {existingAccounts[i].properties.id : i \in
                         {k \in 1..Len(existingAccounts) : ~Falsy(existingAccounts[k].properties.id)}},
    contactEmails |-> {existingContacts[i].properties.email : i \in
                         {k \in 1..Len(existingContacts) : ~Falsy(existingContacts[k].properties.email)}} ]

\* Promise.all of the two searches is fulfilled.
ReadPhaseJoinedAny(accountSearch, contactSearch) == accountSearch.st = "ok" \/ contactSearch.st = "ok"

ReadPhaseJoined(accountSearch, contactSearch) == accountSearch.st = "ok" /\ contactSearch.st = "ok"

\* identifyDeactivations: the remotely active accounts whose id is a key of
\* the deactivation map.
identifyDeactivations(deactivationMap, activeAccounts) ==
  LET hits == SelectSeq(activeAccounts, LAMBDA a : a.properties.id \in DOMAIN deactivationMap)
  IN [i \in 1..Len(hits) |->
        [ hubspotId  |-> hits[i].id,
          accountId  |-> hits[i].properties.id,
          updateData |-> deactivationMap[hits[i].properties.id] ]]

IncreaseOverwrites(counter, n) == n

\* counter += n
Increase(counter, n) == counter + n

\* The catch block of processCSVHighPerformance (errors++, rethrow) and the
\* one of processCsv (return the error shape).
StatsAfterAbort(method, st) ==
  IF method = "processCSVHighPerformance" THEN [st EXCEPT !.errors = Increase(st.errors, 1)] ELSE st

OutcomeOfAbortThrows(method, message) == [ kind |-> "thrown", error |-> message ]

OutcomeOfAbort(method, message) ==
  IF method = "processCSVHighPerformance"
  THEN [ kind |-> "thrown", error |-> message ]
  ELSE [ kind |-> "returned", success |-> FALSE, error |-> message ]

NoOutcome == [ kind |-> "none" ]

OutcomeOfCompletionFailsOnErrors(method, parsed, plan, st) ==
  IF method = "processCSVHighPerformance"
  THEN [ kind |-> "returned", stats |-> st ]
  ELSE [ kind |-> "returned", success |-> st.errors = 0, processed |-> Len(parsed),
         created |-> Len(plan.toCreate), updated |-> Len(plan.toUpdate), errors |-> st.errors ]

OutcomeOfCompletionCountsObjects(method, parsed, plan, st) ==
  IF method = "processCSVHighPerformance"
  THEN [ kind |-> "returned", stats |-> st ]
  ELSE [ kind |-> "returned", success |-> TRUE, processed |-> Len(parsed),
         created |-> st.accountsCreated + st.contactsCreated,
         updated |-> st.accountsUpdated + st.contactsUpdated, errors |-> st.errors ]

\* What the run returns when processBatchOperations has returned.
OutcomeOfCompletion(method, parsed, plan, st) ==
  IF method = "processCSVHighPerformance"
  THEN [ kind |-> "returned", stats |-> st ]
  ELSE [ kind |-> "returned", success |-> TRUE, processed |-> Len(parsed),
         created |-> Len(plan.toCreate), updated |-> Len(plan.toUpdate), errors |-> st.errors ]

\* `Invalid CSV format: missing required columns: ${missingColumns.join(', ')}`
ErrMissingColumns(firstRow) ==
  IF firstRow.user_id = Undefined /\ firstRow.email = Undefined
  THEN "Invalid CSV format: missing required columns: user_id, email"
  ELSE IF firstRow.user_id = Undefined
  THEN "Invalid CSV format: missing required columns: user_id"
  ELSE "Invalid CSV format: missing required columns: email"

NoPlan == [ toCreate |-> <<>>, toUpdate |-> <<>>, totalOperations |-> 0 ]

NoFilter == [ activeRecords |-> <<>>, inactiveRecords |-> <<>>, allRecordsForCreation |-> <<>>,
              totalReduction |-> 0 ]

NoExisting == [ accountIds |-> {}, contactEmails |-> {} ]

ReturnsEarlyOnNoRowsOnly(method, parsed) ==
  /\ method = "processCsv"
  /\ parsed = <<>>

\* processCsv returns before any remote operation: no rows, or a first row
\* without the user_id or the email column.
ReturnsEarly(method, parsed) ==
  /\ method = "processCsv"
  /\ \/ parsed = <<>>
     \/ parsed[1].user_id = Undefined
     \/ parsed[1].email = Undefined

\* The run starts: parse, (processCsv: format checks and ensureValidToken),
\* filterRecordsForProcessing, and getExistingDataBatch up to its Promise.all.
StartRun ==
  /\ pc = "start"
  /\ IF ReturnsEarly(entry, rows)
     THEN /\ pc' = IF rows = <<>> THEN "done" ELSE "failed"
          /\ outcome' = IF rows = <<>>
                        THEN [ kind |-> "returned", success |-> TRUE, processed |-> 0,
                               created |-> 0, updated |-> 0, errors |-> 0 ]
                        ELSE [ kind |-> "returned", success |-> FALSE,
                               error |-> ErrMissingColumns(rows[1]) ]
          /\ UNCHANGED <<client, calls, filterResult>>
     ELSE IF entry = "processCsv" /\ ~client /\ ~hasTokens
     THEN /\ pc' = "failed"
          /\ outcome' = OutcomeOfAbort(entry, ErrNoToken)
          /\ UNCHANGED <<client, calls, filterResult>>
     ELSE /\ pc' = "read"
          /\ filterResult' = filterRecordsForProcessing(rows)
          /\ client' = (client \/ hasTokens)
          /\ calls' =
               (CallId("batchSearchAccounts", 0) :>
                  NewCall("batchSearchAccounts",
                          SearchedAccountIds(filterResult'.allRecordsForCreation), client, hasTokens))
               @@ (CallId("batchSearchContacts", 0) :>
                  NewCall("batchSearchContacts",
                          SearchedContactEmails(filterResult'.allRecordsForCreation), client, hasTokens))
          /\ UNCHANGED outcome
  /\ UNCHANGED <<credential, entry, rows, hasTokens, faults, remote, existingData, strategy, batches, wave,
                 stats, runNo, hist>>

\* The read phase failed: Promise.all of the two searches is rejected, the
\* error reaches the catch block of the method.
ReadPhaseFail ==
  /\ pc = "read"
  /\ \E op \in {"batchSearchAccounts", "batchSearchContacts"} :
       /\ calls[CallId(op, 0)].st = "err"
       /\ outcome' = OutcomeOfAbort(entry, calls[CallId(op, 0)].err)
  /\ pc' = "failed"
  /\ stats' = StatsAfterAbort(entry, stats)
  /\ hist' = [hist EXCEPT !.readFailed = TRUE]
  /\ UNCHANGED <<credential, entry, rows, hasTokens, client, faults, remote, calls, filterResult, existingData,
                 strategy, batches, wave, runNo>>

\* Both searches returned: build the existence sets, categorize, and enter
\* processDeactivations (which returns at once without inactive records).
ReadPhaseJoin ==
  /\ pc = "read"
  /\ ReadPhaseJoined(calls[CallId("batchSearchAccounts", 0)], calls[CallId("batchSearchContacts", 0)])
  /\ existingData' = ExistingDataOf(calls[CallId("batchSearchAccounts", 0)].res,
                                    calls[CallId("batchSearchContacts", 0)].res)
  /\ strategy' = categorizeRecordsByExistence(filterResult.allRecordsForCreation,
                                              existingData'.accountIds, existingData'.contactEmails)
  /\ hist' = [hist EXCEPT !.readOk = TRUE]
  /\ IF filterResult.inactiveRecords = <<>>
     THEN /\ pc' = "batchOps"
          /\ UNCHANGED <<calls, client>>
     ELSE /\ pc' = "deactSearch"
          /\ client' = (client \/ hasTokens)
          /\ calls' = (CallId("searchActiveAccounts", 0) :>
                         NewCall("searchActiveAccounts", <<>>, client, hasTokens)) @@ calls
  /\ UNCHANGED <<credential, entry, rows, hasTokens, faults, remote, filterResult, batches, wave, stats,
                 outcome, runNo>>

\* searchActiveAccounts returned: identifyDeactivations, then the bulk
\* update of the accounts to deactivate, if there are any.
DeactivationsIdentified ==
  /\ pc = "deactSearch"
  /\ calls[CallId("searchActiveAccounts", 0)].st = "ok"
  /\ LET accountsToDeactivate ==
           identifyDeactivations(createDeactivationMap(filterResult.inactiveRecords),
                                 calls[CallId("searchActiveAccounts", 0)].res)
         update == NewCall("batchUpdateAccounts", accountsToDeactivate, client, hasTokens)
     IN IF Len(accountsToDeactivate) > 0
        THEN /\ pc' = "deactUpdate"
             /\ calls' = (CallId("batchUpdateAccounts", 0) :> update) @@ calls
             /\ hist' = [hist EXCEPT !.writes = WritesWith(update, hist.writes)]
        ELSE /\ pc' = "batchOps"
             /\ UNCHANGED <<calls, hist>>
  /\ UNCHANGED <<credential, entry, rows, hasTokens, client, faults, remote, filterResult, existingData,
                 strategy, batches, wave, stats, outcome, runNo>>

DeactivationsUpdatedUnawaited ==
  /\ pc = "deactUpdate"
  /\ stats' = [stats EXCEPT !.accountsUpdated =
                 Increase(stats.accountsUpdated, Len(calls[CallId("batchUpdateAccounts", 0)].res))]
  /\ pc' = "batchOps"
  /\ UNCHANGED <<credential, entry, rows, hasTokens, client, faults, remote, calls, filterResult, existingData,
                 strategy, batches, wave, outcome, runNo, hist>>

\* The deactivating bulk update returned.
DeactivationsUpdated ==
  /\ pc = "deactUpdate"
  /\ calls[CallId("batchUpdateAccounts", 0)].st = "ok"
  /\ stats' = [stats EXCEPT !.accountsUpdated =
                 Increase(stats.accountsUpdated, Len(calls[CallId("batchUpdateAccounts", 0)].res))]
  /\ pc' = "batchOps"
  /\ UNCHANGED <<credential, entry, rows, hasTokens, client, faults, remote, calls, filterResult, existingData,
                 strategy, batches, wave, outcome, runNo, hist>>

\* processDeactivations threw (its search or its update failed): nothing
\* catches the error before the catch block of the method.
DeactivationsFail ==
  /\ \/ /\ pc = "deactSearch"
        /\ calls[CallId("searchActiveAccounts", 0)].st = "err"
        /\ outcome' = OutcomeOfAbort(entry, calls[CallId("searchActiveAccounts", 0)].err)
     \/ /\ pc = "deactUpdate"
        /\ calls[CallId("batchUpdateAccounts", 0)].st = "err"
        /\ outcome' = OutcomeOfAbort(entry, calls[CallId("batchUpdateAccounts", 0)].err)
  /\ pc' = "failed"
  /\ stats' = StatsAfterAbort(entry, stats)
  /\ hist' = [hist EXCEPT !.deactFailed = TRUE]
  /\ UNCHANGED <<credential, entry, rows, hasTokens, client, faults, remote, calls, filterResult, existingData,
                 strategy, batches, wave, runNo>>

\* maxConcurrency passed to processBatchesWithConcurrency.
maxConcurrency == 5

\* transformedAccounts of processSingleBatch: 'true'/'false' become
\* booleans, ever_had_subscription is deleted.
TransformAccount(account) ==
  [ id                    |-> account.id,
    account_type          |-> account.account_type,
    active_subscription   |-> IF account.active_subscription = STR_true THEN JsTrue
                              ELSE IF account.active_subscription = STR_false THEN JsFalse
                              ELSE account.active_subscription,
    weekly_subscriptions  |-> account.weekly_subscriptions,
    monthly_subscriptions |-> account.monthly_subscriptions,
    daily_subscriptions   |-> account.daily_subscriptions ]

\* The simulated results of an update batch.
SimulatedResults(payloads, prefix) ==
  [i \in 1..Len(payloads) |-> [ id |-> <<prefix, i - 1>>, properties |-> payloads[i] ]]

NoResult == [ operation |-> "", batchNum |-> 0, success |-> FALSE, error |-> "" ]

BatchSuccess(operation, batchNum) ==
  [ operation |-> operation, batchNum |-> batchNum, success |-> TRUE, error |-> "" ]

BatchFailureSwallowed(operation, batchNum, message) ==
  [ operation |-> operation, batchNum |-> batchNum, success |-> TRUE, error |-> "" ]

\* The value returned by the catch block of processSingleBatch.
BatchFailure(operation, batchNum, message) ==
  [ operation |-> operation, batchNum |-> batchNum, success |-> FALSE, error |-> message ]

\* if (batch.associations.length > 0 && accountResults.length > 0 && contactResults.length > 0)
NeedsAssociations(batch, accountResults, contactResults) ==
  Len(batch.associations) > 0 /\ Len(accountResults) > 0 /\ Len(contactResults) > 0

\* accountMap.get / contactMap.get of batchCreateAssociations: the remote id
\* of the last result whose key property is the key, undefined without one.
MappedId(results, property, key) ==
  LET hits == SelectSeq([i \in 1..Len(results) |-> i],
                        LAMBDA i : /\ ~Falsy(results[i].properties[property])
                                   /\ results[i].properties[property] = key)
  IN IF hits = <<>> THEN Undefined ELSE results[hits[Len(hits)]].id

\* inputs of batchCreateAssociations: a pair is kept when both remote ids
\* were found in the results, and skipped otherwise.
AssociationInputs(associationPairs, accountResults, contactResults) ==
  LET resolved == [i \in 1..Len(associationPairs) |->
                     [ from |-> MappedId(contactResults, "email", associationPairs[i].contactEmail),
                       to   |-> MappedId(accountResults, "id", associationPairs[i].accountId) ]]
  IN SelectSeq(resolved, LAMBDA p : ~Falsy(p.from) /\ ~Falsy(p.to))

\* One processSingleBatch invocation at its first suspension point. A create
\* batch has invoked both bulk creates; an update batch has synthesized its
\* results and either invoked batchCreateAssociations (associationInputs are
\* the inputs that invocation builds from its arguments) or returned.
StartedBatch(batch, operation, batchNum, totalBatches) ==
  LET accountResults == IF operation = "update" THEN SimulatedResults(batch.accounts, "updated-account") ELSE <<>>
      contactResults == IF operation = "update" THEN SimulatedResults(batch.contacts, "updated-contact") ELSE <<>>
      st == IF operation = "create" THEN "writes"
            ELSE IF NeedsAssociations(batch, accountResults, contactResults) THEN "assoc"
            ELSE "done"
  IN [ operation |-> operation, batchNum |-> batchNum, totalBatches |-> totalBatches, batch |-> batch,
       st |-> st, accountResults |-> accountResults, contactResults |-> contactResults,
       associationInputs |-> IF st = "assoc"
                             THEN AssociationInputs(batch.associations, accountResults, contactResults)
                             ELSE <<>>,
       associationResults |-> <<>>,
       result |-> IF st = "done" THEN BatchSuccess(operation, batchNum) ELSE NoResult ]

\* allBatchPromises: the create batches, then the update batches, every one
\* of them already invoked.
AllBatchPromises(recordsToCreate, recordsToUpdate) ==
  LET createBatches == groupForBatchProcessing(recordsToCreate)
      updateBatches == groupForBatchProcessing(recordsToUpdate)
  IN [i \in 1..Len(createBatches) |-> StartedBatch(createBatches[i], "create", i, Len(createBatches))]
     \o [i \in 1..Len(updateBatches) |-> StartedBatch(updateBatches[i], "update", i, Len(updateBatches))]

\* this.stats after the synchronous part of the started update batches.
RECURSIVE StatsAfterStart(_, _)
StatsAfterStart(started, st) ==
  IF started = <<>> THEN st
  ELSE LET b == Head(started)
       IN StatsAfterStart(
            Tail(started),
            IF b.operation = "update"
            THEN [st EXCEPT
                    !.accountsUpdated  = Increase(st.accountsUpdated, Len(b.accountResults)),
                    !.contactsUpdated  = Increase(st.contactsUpdated, Len(b.contactResults)),
                    !.batchesProcessed = IF b.st = "done" THEN Increase(st.batchesProcessed, 1)
                                         ELSE st.batchesProcessed]
            ELSE st)

\* The bulk create invocations of the started create batches.
CreateCallsOf(started, hasClient, tokensLoaded) ==
  [id \in {CallId(op, b) : op \in {"batchCreateAccounts", "batchCreateContacts"},
                           b \in {k \in 1..Len(started) : started[k].operation = "create"}} |->
     IF id[1] = "batchCreateAccounts"
     THEN NewCall("batchCreateAccounts",
                  [i \in 1..Len(started[id[2]].batch.accounts) |->
                     TransformAccount(started[id[2]].batch.accounts[i])],
                  hasClient \/ Len(started[id[2]].batch.accounts) = 0, tokensLoaded)
     ELSE NewCall("batchCreateContacts", started[id[2]].batch.contacts,
                  hasClient \/ Len(started[id[2]].batch.contacts) = 0, tokensLoaded)]

\* processBatchOperations up to the first await of processBatchesWithConcurrency:
\* both lists are grouped and every batch is invoked.
processBatchOperations ==
  /\ pc = "batchOps"
  /\ \E started \in {AllBatchPromises(strategy.toCreate, strategy.toUpdate)} :
     \E creates \in {CreateCallsOf(started, client, hasTokens)} :
        /\ batches' = started
        /\ calls' = creates @@ calls
        /\ stats' = StatsAfterStart(started, stats)
        /\ hist' = [hist EXCEPT
                      !.base = stats,
                      !.writes = hist.writes \cup {creates[id].op : id \in {k \in DOMAIN creates : creates[k].st = "sent"}}]
  /\ wave' = [ i |-> 0, results |-> <<>> ]
  /\ pc' = "waves"
  /\ UNCHANGED <<credential, entry, rows, hasTokens, client, faults, remote, filterResult, existingData,
                 strategy, outcome, runNo>>

BatchWritesJoinedOnAccounts(b) ==
  /\ batches[b].st = "writes"
  /\ calls[CallId("batchCreateAccounts", b)].st = "ok"
  /\ LET accountResults == calls[CallId("batchCreateAccounts", b)].res
         contactResults == calls[CallId("batchCreateContacts", b)].res
         more == NeedsAssociations(batches[b].batch, accountResults, contactResults)
     IN /\ batches' = [batches EXCEPT
                         ![b].accountResults = accountResults,
                         ![b].contactResults = contactResults,
                         ![b].st = IF more THEN "assoc" ELSE "done",
                         ![b].associationInputs =
                            IF more THEN AssociationInputs(batches[b].batch.associations,
                                                           accountResults, contactResults)
                            ELSE <<>>,
                         ![b].result = IF more THEN NoResult
                                       ELSE BatchSuccess(batches[b].operation, batches[b].batchNum)]
        /\ stats' = [stats EXCEPT
                       !.accountsCreated  = Increase(stats.accountsCreated, Len(accountResults)),
                       !.contactsCreated  = Increase(stats.contactsCreated, Len(contactResults)),
                       !.batchesProcessed = IF more THEN stats.batchesProcessed
                                            ELSE Increase(stats.batchesProcessed, 1)]
  /\ UNCHANGED <<credential, entry, rows, pc, hasTokens, client, faults, remote, calls, filterResult,
                 existingData, strategy, wave, outcome, runNo, hist>>

\* Promise.all of the two bulk creates of a create batch is fulfilled: count
\* the results, then create the associations or return.
BatchWritesJoined(b) ==
  /\ batches[b].st = "writes"
  /\ calls[CallId("batchCreateAccounts", b)].st = "ok"
  /\ calls[CallId("batchCreateContacts", b)].st = "ok"
  /\ LET accountResults == calls[CallId("batchCreateAccounts", b)].res
         contactResults == calls[CallId("batchCreateContacts", b)].res
         more == NeedsAssociations(batches[b].batch, accountResults, contactResults)
     IN /\ batches' = [batches EXCEPT
                         ![b].accountResults = accountResults,
                         ![b].contactResults = contactResults,
                         ![b].st = IF more THEN "assoc" ELSE "done",
                         ![b].associationInputs =
                            IF more THEN AssociationInputs(batches[b].batch.associations,
                                                           accountResults, contactResults)
                            ELSE <<>>,
                         ![b].result = IF more THEN NoResult
                                       ELSE BatchSuccess(batches[b].operation, batches[b].batchNum)]
        /\ stats' = [stats EXCEPT
                       !.accountsCreated  = Increase(stats.accountsCreated, Len(accountResults)),
                       !.contactsCreated  = Increase(stats.contactsCreated, Len(contactResults)),
                       !.batchesProcessed = IF more THEN stats.batchesProcessed
                                            ELSE Increase(stats.batchesProcessed, 1)]
  /\ UNCHANGED <<credential, entry, rows, pc, hasTokens, client, faults, remote, calls, filterResult,
                 existingData, strategy, wave, outcome, runNo, hist>>

BatchWritesFailedUncounted(b) ==
  /\ batches[b].st = "writes"
  /\ \E op \in {"batchCreateAccounts", "batchCreateContacts"} :
       /\ calls[CallId(op, b)].st = "err"
       /\ batches' = [batches EXCEPT
                        ![b].st = "done",
                        ![b].result = BatchFailure(batches[b].operation, batches[b].batchNum,
                                                   calls[CallId(op, b)].err)]
  /\ UNCHANGED <<credential, entry, rows, pc, hasTokens, client, faults, remote, calls, filterResult,
                 existingData, strategy, wave, outcome, runNo, hist, stats>>

\* A bulk create of a create batch threw: the catch block of
\* processSingleBatch counts one error and returns the failure.
BatchWritesFailed(b) ==
  /\ batches[b].st = "writes"
  /\ \E op \in {"batchCreateAccounts", "batchCreateContacts"} :
       /\ calls[CallId(op, b)].st = "err"
       /\ batches' = [batches EXCEPT
                        ![b].st = "done",
                        ![b].result = BatchFailure(batches[b].operation, batches[b].batchNum,
                                                   calls[CallId(op, b)].err)]
  /\ stats' = [stats EXCEPT !.errors = Increase(stats.errors, 1)]
  /\ UNCHANGED <<credential, entry, rows, pc, hasTokens, client, faults, remote, calls, filterResult,
                 existingData, strategy, wave, outcome, runNo, hist>>

AssociationResultsStopAtFailure(inputs, rejected, store) ==
  LET failed == {i \in 1..Len(inputs) : \/ i \in rejected
                                        \/ ~RemoteHasContact(store, inputs[i].from)
                                        \/ ~RemoteHasAccount(store, inputs[i].to)}
      created == SelectSeq([i \in 1..Len(inputs) |-> i], LAMBDA i : \A j \in failed : i < j)
  IN [k \in 1..Len(created) |-> inputs[created[k]]]

\* The responses collected by the loop over the inputs: the remote store
\* creates an association between two records it holds; the calls whose
\* index is in rejected fail, as does a call naming a record it does not hold.
AssociationResults(inputs, rejected, store) ==
  LET created == SelectSeq([i \in 1..Len(inputs) |-> i],
                           LAMBDA i : /\ i \notin rejected
                                      /\ RemoteHasContact(store, inputs[i].from)
                                      /\ RemoteHasAccount(store, inputs[i].to))
  IN [k \in 1..Len(created) |-> inputs[created[k]]]

\* batchCreateAssociations of a batch ran: one association create per input,
\* one after the other, each failure caught inside the loop. The calls only
\* add to the association set of the remote store, which nothing else reads,
\* so the loop is taken as one step.
BatchAssociated(b) ==
  /\ batches[b].st = "assoc"
  /\ \E inputs \in {batches[b].associationInputs} :
       \E rejected \in SUBSET (1..Min(Len(inputs), MaxAssocFail)) :
          /\ rejected # {} => faults > 0
          /\ faults' = IF rejected # {} THEN faults - 1 ELSE faults
          /\ \E results \in {AssociationResults(inputs, rejected, remote)} :
                /\ remote' = [remote EXCEPT !.associations =
                                 remote.associations \cup {<<results[i].from, results[i].to>> : i \in 1..Len(results)}]
                /\ batches' = [batches EXCEPT
                                 ![b].associationResults = results,
                                 ![b].st = "done",
                                 ![b].result = BatchSuccess(batches[b].operation, batches[b].batchNum)]
                /\ stats' = [stats EXCEPT
                               !.associationsCreated = Increase(stats.associationsCreated, Len(results)),
                               !.batchesProcessed    = Increase(stats.batchesProcessed, 1)]
          /\ hist' = [hist EXCEPT !.writes =
                        IF Len(inputs) > 0 THEN hist.writes \cup {"createAssociation"} ELSE hist.writes]
  /\ UNCHANGED <<credential, entry, rows, pc, hasTokens, client, calls, filterResult, existingData, strategy,
                 wave, outcome, runNo>>

\* The slice of batch promises that processBatchesWithConcurrency awaits.
WaveOf(i, n) == {b \in 1..n : i < b /\ b <= i + maxConcurrency}

\* Promise.allSettled of the awaited slice is settled: collect the results,
\* then wait one second when batches remain, or return.
WaveSettled ==
  /\ pc = "waves"
  /\ \A b \in WaveOf(wave.i, Len(batches)) : batches[b].st = "done"
  /\ LET settled == [k \in 1..Cardinality(WaveOf(wave.i, Len(batches))) |-> batches[wave.i + k].result]
     IN IF wave.i + maxConcurrency < Len(batches)
        THEN /\ wave' = [wave EXCEPT !.results = wave.results \o settled]
             /\ pc' = "cooldown"
             /\ UNCHANGED outcome
        ELSE /\ wave' = [wave EXCEPT !.results = wave.results \o settled]
             /\ pc' = "done"
             /\ outcome' = OutcomeOfCompletion(entry, rows, strategy, stats)
  /\ UNCHANGED <<credential, entry, rows, hasTokens, client, faults, remote, calls, filterResult, existingData,
                 strategy, batches, stats, runNo, hist>>

\* The one-second delay between two slices elapsed.
CooldownElapsed ==
  /\ pc = "cooldown"
  /\ wave' = [wave EXCEPT !.i = wave.i + maxConcurrency]
  /\ pc' = "waves"
  /\ UNCHANGED <<credential, entry, rows, hasTokens, client, faults, remote, calls, filterResult, existingData,
                 strategy, batches, stats, outcome, runNo, hist>>

\* ------------------------------------------------------------------------
\* Specification of one run
\* ------------------------------------------------------------------------

\* The long input is run against a remote store that holds its account and
\* its contact, so that its batches are update batches.
LoadRemoteChoices ==
  {r \in RemoteChoices :
     /\ \E k \in 1..Len(r.accounts) : r.accounts[k].bizId = Trim(RowActive.user_id)
     /\ \E k \in 1..Len(r.contacts) : r.contacts[k].email = RowActive.email}

\* The remote store the input of inactive rows is run against: it holds the
\* account of every row, marked active, and the contact of every row.
DeactivationLoadRemote ==
  [ accounts     |-> [i \in 1..DeactivationRows |-> RemoteAccount(i, NumberText(i), TRUE)],
    contacts     |-> [i \in 1..DeactivationRows |-> RemoteContact(DeactivationRows + i, EmailOf(i))],
    associations |-> {},
    nextId       |-> 2 * DeactivationRows + 1 ]

Init ==
  /\ entry \in {"processCsv", "processCSVHighPerformance"}
  /\ \/ rows \in RunRowLists /\ remote \in RemoteChoices
     \/ rows = LoadInput /\ remote \in LoadRemoteChoices
     \/ rows = DeactivationLoadInput /\ remote = DeactivationLoadRemote
  /\ hasTokens \in (IF rows \in LongInputs THEN {TRUE} ELSE BOOLEAN)
  /\ client = FALSE
  /\ faults = (IF rows \in LongInputs THEN 0 ELSE MaxFaults)
  /\ pc = "start"
  /\ calls = <<>>
  /\ filterResult = NoFilter
  /\ existingData = NoExisting
  /\ strategy = NoPlan
  /\ batches = <<>>
  /\ wave = [ i |-> 0, results |-> <<>> ]
  /\ stats = InitialStats
  /\ outcome = NoOutcome
  /\ runNo = 1
  /\ hist = EmptyHist
  /\ credential = LoadedCredential

Next ==
  \/ StartRun
  \/ \E id \in DOMAIN calls : RemoteRespond(id)
  \/ \E id \in DOMAIN calls : RemoteUnauthorized(id)
  \/ \E id \in DOMAIN calls : RemoteError(id)
  \/ \E id \in DOMAIN calls : RefreshDone(id)
  \/ \E id \in DOMAIN calls : RefreshFailed(id)
  \/ ReadPhaseFail
  \/ ReadPhaseJoin
  \/ DeactivationsIdentified
  \/ DeactivationsUpdated
  \/ DeactivationsFail
  \/ processBatchOperations
  \/ \E b \in 1..Len(batches) : BatchWritesJoined(b)
  \/ \E b \in 1..Len(batches) : BatchWritesFailed(b)
  \/ \E b \in 1..Len(batches) : BatchAssociated(b)
  \/ WaveSettled
  \/ CooldownElapsed

Spec == Init /\ [][Next]_vars

\* ------------------------------------------------------------------------
\* Specification of two runs in a row on the same integration object,
\* with a loaded token and a remote store that serves every request
\* ------------------------------------------------------------------------

\* The method is called again with the same input after it returned. The
\* local variables of the method are new, this.stats, the client and the
\* remote store stay as the first run left them.
Rerun ==
  /\ pc = "done"
  /\ runNo = 1
  /\ runNo' = 2
  /\ pc' = "start"
  /\ calls' = <<>>
  /\ filterResult' = NoFilter
  /\ existingData' = NoExisting
  /\ strategy' = NoPlan
  /\ batches' = <<>>
  /\ wave' = [ i |-> 0, results |-> <<>> ]
  /\ outcome' = NoOutcome
  /\ hist' = EmptyHist
  /\ UNCHANGED <<credential, entry, rows, hasTokens, client, faults, remote, stats>>

InitRerun ==
  /\ entry \in {"processCsv", "processCSVHighPerformance"}
  /\ rows \in RunRowLists
  /\ remote \in RemoteChoices
  /\ hasTokens = TRUE
  /\ client = FALSE
  /\ faults = 0
  /\ pc = "start"
  /\ calls = <<>>
  /\ filterResult = NoFilter
  /\ existingData = NoExisting
  /\ strategy = NoPlan
  /\ batches = <<>>
  /\ wave = [ i |-> 0, results |-> <<>> ]
  /\ stats = InitialStats
  /\ outcome = NoOutcome
  /\ runNo = 1
  /\ hist = EmptyHist
  /\ credential = LoadedCredential

NextRerun ==
  \/ StartRun
  \/ \E id \in DOMAIN calls : RemoteRespond(id)
  \/ ReadPhaseJoin
  \/ DeactivationsIdentified
  \/ DeactivationsUpdated
  \/ processBatchOperations
  \/ \E b \in 1..Len(batches) : BatchWritesJoined(b)
  \/ \E b \in 1..Len(batches) : BatchAssociated(b)
  \/ WaveSettled
  \/ Rerun

SpecRerun == InitRerun /\ [][NextRerun]_vars

\* ------------------------------------------------------------------------
\* Specification of one run over rows of every kind, with a loaded token
\* and a remote store that serves every request
\* ------------------------------------------------------------------------

ServedRowLists == UNION {[1..n -> RowChoices] : n \in 0..MaxRows}

InitServed ==
  /\ entry \in {"processCsv", "processCSVHighPerformance"}
  /\ rows \in ServedRowLists
  /\ remote \in RemoteChoices
  /\ hasTokens = TRUE
  /\ client = FALSE
  /\ faults = 0
  /\ pc = "start"
  /\ calls = <<>>
  /\ filterResult = NoFilter
  /\ existingData = NoExisting
  /\ strategy = NoPlan
  /\ batches = <<>>
  /\ wave = [ i |-> 0, results |-> <<>> ]
  /\ stats = InitialStats
  /\ outcome = NoOutcome
  /\ runNo = 1
  /\ hist = EmptyHist
  /\ credential = LoadedCredential

NextServed ==
  \/ StartRun
  \/ \E id \in DOMAIN calls : RemoteRespond(id)
  \/ ReadPhaseJoin
  \/ DeactivationsIdentified
  \/ DeactivationsUpdated
  \/ processBatchOperations
  \/ \E b \in 1..Len(batches) : BatchWritesJoined(b)
  \/ \E b \in 1..Len(batches) : BatchAssociated(b)
  \/ WaveSettled

SpecServed == InitServed /\ [][NextServed]_vars

\* ------------------------------------------------------------------------
\* Specification of one call of processCsv that the remote store serves,
\* over the short inputs and over one input of more than one batch of
\* distinct records that the remote store does not hold
\* ------------------------------------------------------------------------

InitFresh ==
  /\ entry = "processCsv"
  /\ \/ rows \in ServedRowLists /\ remote \in RemoteChoices
     \/ rows = DeactivationLoadInput /\ remote = EmptyRemote
  /\ hasTokens = TRUE
  /\ client = FALSE
  /\ faults = 0
  /\ pc = "start"
  /\ calls = <<>>
  /\ filterResult = NoFilter
  /\ existingData = NoExisting
  /\ strategy = NoPlan
  /\ batches = <<>>
  /\ wave = [ i |-> 0, results |-> <<>> ]
  /\ stats = InitialStats
  /\ outcome = NoOutcome
  /\ runNo = 1
  /\ hist = EmptyHist
  /\ credential = LoadedCredential

NextFresh ==
  \/ StartRun
  \/ \E id \in DOMAIN calls : RemoteRespond(id)
  \/ ReadPhaseJoin
  \/ DeactivationsIdentified
  \/ DeactivationsUpdated
  \/ processBatchOperations
  \/ \E b \in 1..Len(batches) : BatchWritesJoined(b)
  \/ \E b \in 1..Len(batches) : BatchAssociated(b)
  \/ WaveSettled

SpecFresh == InitFresh /\ [][NextFresh]_vars

\* ------------------------------------------------------------------------
\* Specification of one direct call of batchCreateAccounts on a client, as
\* the unit tests make it
\* ------------------------------------------------------------------------

\* The lists the operation is called with: none, one or two account payloads.
DirectPayloads ==
  UNION {[1..n -> {TransformAccount(mapAccountFields(RowActive)),
                   TransformAccount(mapAccountFields(RowInactive))}] : n \in 0..MaxRows}

InitDirect ==
  /\ entry = "batchCreateAccounts"
  /\ rows = <<>>
  /\ pc = "direct"
  /\ hasTokens \in BOOLEAN
  /\ client \in BOOLEAN
  /\ client => hasTokens
  /\ faults = MaxFaults
  /\ remote \in RemoteChoices
  /\ calls = <<>>
  /\ filterResult = NoFilter
  /\ existingData = NoExisting
  /\ strategy = NoPlan
  /\ batches = <<>>
  /\ wave = [ i |-> 0, results |-> <<>> ]
  /\ stats = InitialStats
  /\ outcome = NoOutcome
  /\ runNo = 1
  /\ hist = EmptyHist
  /\ credential = LoadedCredential

\* batchCreateAccounts(accountsData): ensureValidToken, then the
\* empty-input return, then the request.
batchCreateAccounts ==
  /\ pc = "direct"
  /\ calls = <<>>
  /\ \E accountsData \in DirectPayloads :
       calls' = (CallId("batchCreateAccounts", 1) :>
                   NewCall("batchCreateAccounts", accountsData, client, hasTokens))
  /\ client' = (client \/ hasTokens)
  /\ UNCHANGED <<credential, entry, rows, pc, hasTokens, faults, remote, filterResult, existingData,
                 strategy, batches, wave, stats, outcome, runNo, hist>>

NextDirect ==
  \/ batchCreateAccounts
  \/ \E id \in DOMAIN calls : RemoteRespond(id)
  \/ \E id \in DOMAIN calls : RemoteUnauthorized(id)
  \/ \E id \in DOMAIN calls : RemoteError(id)
  \/ \E id \in DOMAIN calls : RefreshDone(id)
  \/ \E id \in DOMAIN calls : RefreshFailed(id)

SpecDirect == InitDirect /\ [][NextDirect]_vars

\* ------------------------------------------------------------------------
\* Specification of one run that the remote store serves, where the remote
\* store may hold more matches for one lookup than one result page
\* ------------------------------------------------------------------------

\* A remote store in which a page of accounts shares the business id of
\* RowActive and a page of contacts shares its email, created before the
\* account and the contact of RowInactive.
CrowdedRemote ==
  [ accounts     |-> [i \in 1..searchLimit |-> RemoteAccount(i, Trim(RowActive.user_id), TRUE)]
                       \o <<RemoteAccount(searchLimit + 1, Trim(RowInactive.user_id), TRUE)>>,
    contacts     |-> [i \in 1..searchLimit |-> RemoteContact(searchLimit + 1 + i, RowActive.email)]
                       \o <<RemoteContact(2 * searchLimit + 2, RowInactive.email)>>,
    associations |-> {},
    nextId       |-> 2 * searchLimit + 3 ]

InitLookup ==
  /\ entry \in {"processCsv", "processCSVHighPerformance"}
  /\ rows \in ServedRowLists
  /\ remote \in RemoteChoices \cup {CrowdedRemote}
  /\ hasTokens = TRUE
  /\ client = FALSE
  /\ faults = 0
  /\ pc = "start"
  /\ calls = <<>>
  /\ filterResult = NoFilter
  /\ existingData = NoExisting
  /\ strategy = NoPlan
  /\ batches = <<>>
  /\ wave = [ i |-> 0, results |-> <<>> ]
  /\ stats = InitialStats
  /\ outcome = NoOutcome
  /\ runNo = 1
  /\ hist = EmptyHist
  /\ credential = LoadedCredential

NextLookup ==
  \/ StartRun
  \/ \E id \in DOMAIN calls : RemoteRespond(id)
  \/ ReadPhaseJoin
  \/ DeactivationsIdentified
  \/ DeactivationsUpdated
  \/ processBatchOperations
  \/ \E b \in 1..Len(batches) : BatchWritesJoined(b)
  \/ \E b \in 1..Len(batches) : BatchAssociated(b)
  \/ WaveSettled

SpecLookup == InitLookup /\ [][NextLookup]_vars

\* ------------------------------------------------------------------------
\* Specification of one run that the remote store serves, over inputs that
\* may hold an active and an inactive row for the same user_id
\* ------------------------------------------------------------------------

\* The row of RowActive with its subscription marked inactive.
RowLapsed == [RowActive EXCEPT !.active_sub = STR_false]

MixedRowLists == UNION {[1..n -> {RowActive, RowInactive, RowLapsed}] : n \in 1..MaxRows}

InitMixed ==
  /\ entry \in {"processCsv", "processCSVHighPerformance"}
  /\ rows \in MixedRowLists
  /\ remote \in RemoteChoices
  /\ hasTokens = TRUE
  /\ client = FALSE
  /\ faults = 0
  /\ pc = "start"
  /\ calls = <<>>
  /\ filterResult = NoFilter
  /\ existingData = NoExisting
  /\ strategy = NoPlan
  /\ batches = <<>>
  /\ wave = [ i |-> 0, results |-> <<>> ]
  /\ stats = InitialStats
  /\ outcome = NoOutcome
  /\ runNo = 1
  /\ hist = EmptyHist
  /\ credential = LoadedCredential

NextMixed ==
  \/ StartRun
  \/ \E id \in DOMAIN calls : RemoteRespond(id)
  \/ ReadPhaseJoin
  \/ DeactivationsIdentified
  \/ DeactivationsUpdated
  \/ processBatchOperations
  \/ \E b \in 1..Len(batches) : BatchWritesJoined(b)
  \/ \E b \in 1..Len(batches) : BatchAssociated(b)
  \/ WaveSettled

SpecMixed == InitMixed /\ [][NextMixed]_vars

\* ------------------------------------------------------------------------
\* Specification of batchCreateAssociations called by one create batch whose
\* bulk creates returned results for some of its payloads
\* ------------------------------------------------------------------------

\* The rows of the batch: valid rows with a user_id.
PairedRowLists == UNION {[1..n -> {RowActive, RowInactive}] : n \in 1..MaxRecords}

\* The elements of a list at the positions kept, in order.
Kept(seq, keep) ==
  LET at == SelectSeq([i \in 1..Len(seq) |-> i], LAMBDA i : i \in keep)
  IN [k \in 1..Len(at) |-> seq[at[k]]]

\* The create batch after Promise.all of its bulk creates returned the two
\* result lists and batchCreateAssociations was invoked with them.
JoinedCreateBatch(batch, accountResults, contactResults) ==
  [ StartedBatch(batch, "create", 1, 1) EXCEPT
      !.accountResults = accountResults,
      !.contactResults = contactResults,
      !.st = "assoc",
      !.associationInputs = AssociationInputs(batch.associations, accountResults, contactResults) ]

InitAssociate ==
  /\ entry = "processCSVHighPerformance"
  /\ rows \in PairedRowLists
  /\ hasTokens = TRUE
  /\ client = TRUE
  /\ faults = MaxFaults
  /\ pc = "waves"
  /\ filterResult = filterRecordsForProcessing(rows)
  /\ existingData = NoExisting
  /\ strategy = StrategyOf(rows, <<>>)
  /\ \E batch \in {groupForBatchProcessing(rows)[1]} :
     \E keptAccounts \in (SUBSET (1..Len(rows))) \ {{}} :
     \E keptContacts \in (SUBSET (1..Len(rows))) \ {{}} :
     \E accountResults \in {Kept(CreateAccountsResults(EmptyRemote,
                                   [i \in 1..Len(rows) |-> TransformAccount(batch.accounts[i])]),
                                 keptAccounts)} :
     \E contactResults \in {Kept(CreateContactsResults([EmptyRemote EXCEPT !.nextId = Len(rows) + 1],
                                                       batch.contacts),
                                 keptContacts)} :
        /\ batches = <<JoinedCreateBatch(batch, accountResults, contactResults)>>
        /\ remote = [ accounts     |-> [i \in 1..Len(accountResults) |->
                                          [ id |-> accountResults[i].id,
                                            bizId |-> accountResults[i].properties.id,
                                            active |-> accountResults[i].properties.active_subscription = JsTrue ]],
                      contacts     |-> [i \in 1..Len(contactResults) |->
                                          [ id |-> contactResults[i].id,
                                            email |-> contactResults[i].properties.email ]],
                      associations |-> {},
                      nextId       |-> 2 * Len(rows) + 1 ]
        /\ calls = (CallId("batchCreateAccounts", 1) :>
                      [ NewCall("batchCreateAccounts",
                                [i \in 1..Len(rows) |-> TransformAccount(batch.accounts[i])], TRUE, TRUE)
                          EXCEPT !.st = "ok", !.res = accountResults ])
                   @@ (CallId("batchCreateContacts", 1) :>
                      [ NewCall("batchCreateContacts", batch.contacts, TRUE, TRUE)
                          EXCEPT !.st = "ok", !.res = contactResults ])
        /\ stats = [ InitialStats EXCEPT !.accountsCreated = Len(accountResults),
                                         !.contactsCreated = Len(contactResults) ]
  /\ wave = [ i |-> 0, results |-> <<>> ]
  /\ outcome = NoOutcome
  /\ runNo = 1
  /\ hist = [ EmptyHist EXCEPT !.readOk = TRUE, !.writes = {"batchCreateAccounts", "batchCreateContacts"} ]
  /\ credential = LoadedCredential

NextAssociate ==
  \/ \E b \in 1..Len(batches) : BatchAssociated(b)
  \/ WaveSettled

SpecAssociate == InitAssociate /\ [][NextAssociate]_vars

\* ------------------------------------------------------------------------
\* Specification of refreshAccessToken invoked by the two searches of the
\* read phase after both were rejected with 401, step by step
\* ------------------------------------------------------------------------

\* The token endpoint answered the fetch of an invocation with a new token:
\* saveTokens sets this.tokens and starts fs.writeFile.
TokenIssued(id) ==
  /\ calls[id].st = "refresh"
  /\ credential' = [ credential EXCEPT
                       !.tokens  = Token(credential.issued + 1),
                       !.issued  = credential.issued + 1,
                       !.writing = (id :> Token(credential.issued + 1)) @@ credential.writing ]
  /\ calls' = [calls EXCEPT ![id].st = "saving"]
  /\ UNCHANGED <<entry, rows, pc, hasTokens, client, faults, remote, filterResult, existingData,
                 strategy, batches, wave, stats, outcome, runNo, hist>>

\* fs.writeFile of an invocation completed, the file holds what it wrote:
\* saveTokens returns, initializeClient builds the client from this.tokens
\* and the operation invokes itself again.
TokenFileWritten(id) ==
  /\ calls[id].st = "saving"
  /\ credential' = [ credential EXCEPT
                       !.tokenFile = credential.writing[id],
                       !.client    = credential.tokens,
                       !.writing   = [k \in DOMAIN credential.writing \ {id} |-> credential.writing[k]] ]
  /\ calls' = [calls EXCEPT ![id] = RetriedCall(calls[id])]
  /\ hist' = [hist EXCEPT !.writes = WritesWith(RetriedCall(calls[id]), hist.writes)]
  /\ UNCHANGED <<entry, rows, pc, hasTokens, client, faults, remote, filterResult, existingData,
                 strategy, batches, wave, stats, outcome, runNo>>

\* The run after StartRun and the rejection of both searches with 401.
InitRefresh ==
  /\ entry \in {"processCsv", "processCSVHighPerformance"}
  /\ rows \in {r \in RunRowLists : filterRecordsForProcessing(r).allRecordsForCreation # <<>>}
  /\ ~ReturnsEarly(entry, rows)
  /\ remote \in RemoteChoices
  /\ hasTokens = TRUE
  /\ client = TRUE
  /\ faults = MaxFaults - 2
  /\ pc = "read"
  /\ filterResult = filterRecordsForProcessing(rows)
  /\ calls = (CallId("batchSearchAccounts", 0) :>
                [ NewCall("batchSearchAccounts",
                          SearchedAccountIds(filterResult.allRecordsForCreation), TRUE, TRUE)
                    EXCEPT !.st = "refresh" ])
             @@ (CallId("batchSearchContacts", 0) :>
                [ NewCall("batchSearchContacts",
                          SearchedContactEmails(filterResult.allRecordsForCreation), TRUE, TRUE)
                    EXCEPT !.st = "refresh" ])
  /\ existingData = NoExisting
  /\ strategy = NoPlan
  /\ batches = <<>>
  /\ wave = [ i |-> 0, results |-> <<>> ]
  /\ stats = InitialStats
  /\ outcome = NoOutcome
  /\ runNo = 1
  /\ hist = EmptyHist
  /\ credential = LoadedCredential

NextRefresh ==
  \/ \E id \in DOMAIN calls : TokenIssued(id)
  \/ \E id \in DOMAIN calls : TokenFileWritten(id)

SpecRefresh == InitRefresh /\ [][NextRefresh]_vars

\* ------------------------------------------------------------------------
\* Specification of two calls of processCsv in a row on the same
\* integration object, with a remote store that may reject a request
\* ------------------------------------------------------------------------

\* Rejections the remote store may make over the two calls.
ReuseFaults == 1

InitReuse ==
  /\ entry = "processCsv"
  /\ rows \in RunRowLists
  /\ remote \in RemoteChoices
  /\ hasTokens = TRUE
  /\ client = FALSE
  /\ faults = ReuseFaults
  /\ pc = "start"
  /\ calls = <<>>
  /\ filterResult = NoFilter
  /\ existingData = NoExisting
  /\ strategy = NoPlan
  /\ batches = <<>>
  /\ wave = [ i |-> 0, results |-> <<>> ]
  /\ stats = InitialStats
  /\ outcome = NoOutcome
  /\ runNo = 1
  /\ hist = EmptyHist
  /\ credential = LoadedCredential

NextReuse ==
  \/ StartRun
  \/ \E id \in DOMAIN calls : RemoteRespond(id)
  \/ \E id \in DOMAIN calls : RemoteError(id)
  \/ ReadPhaseFail
  \/ ReadPhaseJoin
  \/ DeactivationsIdentified
  \/ DeactivationsUpdated
  \/ DeactivationsFail
  \/ processBatchOperations
  \/ \E b \in 1..Len(batches) : BatchWritesJoined(b)
  \/ \E b \in 1..Len(batches) : BatchWritesFailed(b)
  \/ \E b \in 1..Len(batches) : BatchAssociated(b)
  \/ WaveSettled
  \/ Rerun

SpecReuse == InitReuse /\ [][NextReuse]_vars

\* ------------------------------------------------------------------------
\* Specification of the processor functions applied to a list of rows and
\* to arbitrary existence sets
\* ------------------------------------------------------------------------

\* The business ids and e-mails the existence sets are drawn from.
ExistingIdChoices == {RowActive.user_id, RowInactive.user_id, RowPadded.user_id}

ExistingEmailChoices == {EMAIL_1, EMAIL_2}

\* filterRecordsForProcessing(rows) is called.
FilterStep ==
  /\ pc = "parsed"
  /\ filterResult' = filterRecordsForProcessing(rows)
  /\ pc' = "filtered"
  /\ UNCHANGED <<credential, entry, rows, hasTokens, client, faults, remote, calls, existingData, strategy,
                 batches, wave, stats, outcome, runNo, hist>>

\* categorizeRecordsByExistence(filterResult.allRecordsForCreation,
\* existingData.accountIds, existingData.contactEmails) is called.
CategorizeStep ==
  /\ pc = "filtered"
  /\ strategy' = categorizeRecordsByExistence(filterResult.allRecordsForCreation,
                                              existingData.accountIds, existingData.contactEmails)
  /\ pc' = "categorized"
  /\ UNCHANGED <<credential, entry, rows, hasTokens, client, faults, remote, calls, filterResult, existingData,
                 batches, wave, stats, outcome, runNo, hist>>

InitPure ==
  /\ entry = "processor"
  /\ rows \in RowLists
  /\ existingData \in [ accountIds : SUBSET ExistingIdChoices, contactEmails : SUBSET ExistingEmailChoices ]
  /\ remote = EmptyRemote
  /\ hasTokens = FALSE
  /\ client = FALSE
  /\ faults = 0
  /\ pc = "parsed"
  /\ calls = <<>>
  /\ filterResult = NoFilter
  /\ strategy = NoPlan
  /\ batches = <<>>
  /\ wave = [ i |-> 0, results |-> <<>> ]
  /\ stats = InitialStats
  /\ outcome = NoOutcome
  /\ runNo = 1
  /\ hist = EmptyHist
  /\ credential = LoadedCredential

NextPure ==
  \/ FilterStep
  \/ CategorizeStep

SpecPure == InitPure /\ [][NextPure]_vars

\* ------------------------------------------------------------------------
\* Specification of filterRecordsForProcessing applied to rows with every
\* kind of active_sub value
\* ------------------------------------------------------------------------

\* The values of the active_sub cell.
ActiveSubChoices ==
  {STR_true, <<"T","R","U","E">>, <<"T","r","u","e">>, <<"1">>, STR_false, <<"0">>, <<"y","e","s">>,
   <<" ","t","r","u","e">>, <<>>, Undefined}

ActivityRows == {Row(<<"1">>, EMAIL_1, STR_MP, a, <<"1">>) : a \in ActiveSubChoices} \cup {RowBadEmail}

ActivityRowLists == UNION {[1..n -> ActivityRows] : n \in 0..MaxRecords}

InitFilter ==
  /\ entry = "processor"
  /\ rows \in ActivityRowLists
  /\ existingData = NoExisting
  /\ remote = EmptyRemote
  /\ hasTokens = FALSE
  /\ client = FALSE
  /\ faults = 0
  /\ pc = "parsed"
  /\ calls = <<>>
  /\ filterResult = NoFilter
  /\ strategy = NoPlan
  /\ batches = <<>>
  /\ wave = [ i |-> 0, results |-> <<>> ]
  /\ stats = InitialStats
  /\ outcome = NoOutcome
  /\ runNo = 1
  /\ hist = EmptyHist
  /\ credential = LoadedCredential

NextFilter == FilterStep

SpecFilter == InitFilter /\ [][NextFilter]_vars

\* ------------------------------------------------------------------------
\* Specification of groupForBatchProcessing applied to a list of records
\* ------------------------------------------------------------------------

\* The longest enumerated list of records fills MaxGroups batches and
\* starts one more.
MaxGroups == 2

\* The i-th record of a long list: a valid record with a user_id and an
\* email of its own or, in a list with gaps, at every seventh position a
\* record for which mapAccountFields returns null.
LongRecord(i, gaps) ==
  IF gaps /\ i % 7 = 0 THEN RowNoUserId
  ELSE Row(NumberText(i), EmailOf(i), STR_MP,
           IF i % 2 = 0 THEN STR_true ELSE STR_false, NumberText(i % 3))

\* Lengths around the multiples of the batch size.
\* The values of the user_type cell the mapping is applied to.
UserTypeChoices ==
  {STR_MP, STR_WIX, <<"m","p">>, <<" ","W","I","X">>, <<"U","N","K","N","O","W","N">>, <<>>, Undefined,
   STR_constructor, STR_valueOf}

TypedRows == {Row(<<"1">>, EMAIL_1, t, STR_true, <<"1">>) : t \in UserTypeChoices}

TypedRowLists == UNION {[1..n -> TypedRows] : n \in 1..MaxRows}

LongLengths == {k * batchSize + d : k \in 1..MaxGroups, d \in {-1, 0, 1}}

LongLists == {[i \in 1..n |-> LongRecord(i, gaps)] : n \in LongLengths, gaps \in BOOLEAN}

\* groupForBatchProcessing(rows) is called; its result is kept in batches.
GroupStep ==
  /\ pc = "records"
  /\ batches' = groupForBatchProcessing(rows)
  /\ pc' = "grouped"
  /\ UNCHANGED <<credential, entry, rows, hasTokens, client, faults, remote, calls, filterResult, existingData,
                 strategy, wave, stats, outcome, runNo, hist>>

InitGroup ==
  /\ entry = "processor"
  /\ rows \in RowLists \cup LongLists \cup TypedRowLists
  /\ existingData = NoExisting
  /\ remote = EmptyRemote
  /\ hasTokens = FALSE
  /\ client = FALSE
  /\ faults = 0
  /\ pc = "records"
  /\ calls = <<>>
  /\ filterResult = NoFilter
  /\ strategy = NoPlan
  /\ batches = <<>>
  /\ wave = [ i |-> 0, results |-> <<>> ]
  /\ stats = InitialStats
  /\ outcome = NoOutcome
  /\ runNo = 1
  /\ hist = EmptyHist
  /\ credential = LoadedCredential

NextGroup == GroupStep

SpecGroup == InitGroup /\ [][NextGroup]_vars

\* ------------------------------------------------------------------------
\* Properties
\* ------------------------------------------------------------------------

RECURSIVE SumSeq(_)
SumSeq(ns) == IF ns = <<>> THEN 0 ELSE Head(ns) + SumSeq(Tail(ns))

InSeq(x, seq) == \E i \in 1..Len(seq) : seq[i] = x

\* list can be obtained from all by deleting elements (each element of
\* list is matched with the first element of all that can still match it).
RECURSIVE IsSubsequence(_, _)
IsSubsequence(list, all) ==
  IF list = <<>> THEN TRUE
  ELSE IF all = <<>> THEN FALSE
  ELSE IF Head(list) = Head(all) THEN IsSubsequence(Tail(list), Tail(all))
  ELSE IsSubsequence(list, Tail(all))

ReadSearchOps == {"batchSearchAccounts", "batchSearchContacts"}

BulkCreateOps == {"batchCreateAccounts", "batchCreateContacts"}

\* The batches whose processSingleBatch invocation has started and has not
\* returned its result.
InFlight == {b \in 1..Len(batches) : batches[b].st # "done"}

\* A bulk create of create batch b raised an error.
CreateCallFailed(b) ==
  /\ batches[b].operation = "create"
  /\ \E op \in BulkCreateOps : calls[CallId(op, b)].st = "err"

FailedBatches == {b \in 1..Len(batches) : batches[b].st = "done" /\ ~batches[b].result.success}

SucceededBatches == {b \in 1..Len(batches) : batches[b].st = "done" /\ batches[b].result.success}

\* processBatchOperations has been entered.
InBatchPhase == pc \in {"waves", "cooldown", "done"}

\* C1: during processBatchOperations, whatever the number of planned create
\* and update batches, never more than 5 batches are in flight at once (a
\* batch is in flight from the start of its processSingleBatch invocation
\* until that invocation returns its result).
C1_AtMostFiveBatchesInFlight == Cardinality(InFlight) <= maxConcurrency

\* C2: one invocation of a client operation performs at most one token
\* refresh and at most one retry: a 401 on the call made after the refresh
\* starts no second refresh.
C2_AtMostOneRefreshPerInvocation ==
  \A id \in DOMAIN calls :
    /\ calls[id].refreshes <= 1
    /\ calls[id].st = "refresh" => calls[id].refreshes = 0

\* C3: no write is issued to the remote store before both existence
\* searches have returned and the existence sets are built from their
\* results; the categorization is a function of the validated records and
\* of those sets only.
C3_NoWriteBeforeReadPhase ==
  hist.writes # {} =>
    /\ hist.readOk
    /\ \A op \in ReadSearchOps : calls[CallId(op, 0)].st = "ok"
    /\ existingData = ExistingDataOf(calls[CallId("batchSearchAccounts", 0)].res,
                                     calls[CallId("batchSearchContacts", 0)].res)
    /\ strategy = categorizeRecordsByExistence(filterResult.allRecordsForCreation,
                                               existingData.accountIds, existingData.contactEmails)

\* A write was issued in a run whose read phase found an existing account
\* and planned a creation.
C3_Witness ==
  /\ hist.writes # {}
  /\ existingData.accountIds # {}
  /\ strategy.toCreate # <<>>

\* C4: when an existence search fails with a non-authorization error, the
\* run aborts without any write: processCSVHighPerformance counts one error
\* and rethrows the error, processCsv returns success false with the
\* message of the error.
C4_ReadFailureAbortsWithoutWrite ==
  (hist.readFailed /\ \E op \in ReadSearchOps : calls[CallId(op, 0)].err = ErrRemote) =>
    /\ pc = "failed"
    /\ hist.writes = {}
    /\ batches = <<>>
    /\ entry = "processCSVHighPerformance" =>
         /\ outcome.kind = "thrown"
         /\ \E op \in ReadSearchOps :
              calls[CallId(op, 0)].st = "err" /\ outcome.error = calls[CallId(op, 0)].err
         /\ stats.errors = 1
    /\ entry = "processCsv" =>
         /\ outcome.kind = "returned"
         /\ outcome.success = FALSE
         /\ \E op \in ReadSearchOps :
              calls[CallId(op, 0)].st = "err" /\ outcome.error = calls[CallId(op, 0)].err

\* processCsv returned the failure of a search that the remote store
\* rejected with an error other than 401.
C4_Witness ==
  /\ hist.readFailed
  /\ entry = "processCsv"
  /\ outcome.kind = "returned"
  /\ outcome.error = ErrRemote

\* C5: a batch whose account or contact bulk write raised an error returns
\* success false and counts exactly one error; every other batch completes
\* with a result of its own: when processBatchOperations returns every batch
\* has returned, in order, and a batch without a failed bulk write succeeded.
C5_BatchFailureIsIsolated ==
  InBatchPhase =>
    /\ \A b \in 1..Len(batches) :
         batches[b].st = "done" => (batches[b].result.success <=> ~CreateCallFailed(b))
    /\ stats.errors - hist.base.errors = Cardinality(FailedBatches)
    /\ pc = "done" =>
         /\ InFlight = {}
         /\ wave.results = [b \in 1..Len(batches) |-> batches[b].result]

\* The run ended with a failed batch and a succeeded batch.
C5_Witness ==
  /\ pc = "done"
  /\ \E b \in FailedBatches : CreateCallFailed(b)
  /\ SucceededBatches # {}

\* C6: once the read phase succeeded and planned operations, the run does
\* not abort: a failure of the deactivation step (the search for active
\* accounts or the deactivating bulk update) does not keep the create and
\* update batches from being executed.
C6_NoAbortAfterReadPhase ==
  (hist.readOk /\ strategy.totalOperations > 0) => pc # "failed"

\* The contribution of every batch to each counter, read from what the
\* batch received and returned.
Contributions ==
  [ accountsCreated     |-> [b \in 1..Len(batches) |->
                               IF batches[b].operation = "create" THEN Len(batches[b].accountResults) ELSE 0],
    contactsCreated     |-> [b \in 1..Len(batches) |->
                               IF batches[b].operation = "create" THEN Len(batches[b].contactResults) ELSE 0],
    accountsUpdated     |-> [b \in 1..Len(batches) |->
                               IF batches[b].operation = "update" THEN Len(batches[b].batch.accounts) ELSE 0],
    contactsUpdated     |-> [b \in 1..Len(batches) |->
                               IF batches[b].operation = "update" THEN Len(batches[b].batch.contacts) ELSE 0],
    associationsCreated |-> [b \in 1..Len(batches) |-> Len(batches[b].associationResults)],
    errors              |-> [b \in 1..Len(batches) |-> IF b \in FailedBatches THEN 1 ELSE 0],
    batchesProcessed    |-> [b \in 1..Len(batches) |-> IF b \in SucceededBatches THEN 1 ELSE 0] ]

\* C7: in every interleaving of the remote calls of the batches, each
\* counter has grown, since processBatchOperations started, by the sum of
\* the contributions of the batches: no increment is lost or overwritten.
C7_CountersAreSumsOfContributions ==
  InBatchPhase =>
    \A counter \in DOMAIN Contributions :
      stats[counter] - hist.base[counter] = SumSeq(Contributions[counter])

\* The run ended with two batches counted as processed, one of which
\* created an association, on top of a deactivation counted before them.
C7_Witness ==
  /\ pc = "done"
  /\ Cardinality(SucceededBatches) >= 2
  /\ stats.associationsCreated > 0
  /\ hist.base.accountsUpdated > 0

\* Flipping active_sub of a record does not move it to the other list.
SameListWhateverActiveSub(r, ids, emails) ==
  \A v \in {STR_true, STR_false, <<"1">>, Undefined} :
    categorizeRecordsByExistence(<<[r EXCEPT !.active_sub = v]>>, ids, emails).toCreate = <<>>
      <=> categorizeRecordsByExistence(<<r>>, ids, emails).toCreate = <<>>

\* C8 as stated: a validated record is in toCreate exactly when its user_id
\* is not in the existing-account set or its email is not in the
\* existing-contact set, and in toUpdate otherwise, whatever its active_sub;
\* each list keeps the input order.
C8_CreateIffUserIdOrEmailMissing ==
  pc = "categorized" =>
    LET all == filterResult.allRecordsForCreation
        missing(r) == r.user_id \notin existingData.accountIds \/ r.email \notin existingData.contactEmails
    IN /\ \A i \in 1..Len(all) :
            /\ InSeq(all[i], strategy.toCreate) <=> missing(all[i])
            /\ InSeq(all[i], strategy.toUpdate) <=> ~missing(all[i])
            /\ SameListWhateverActiveSub(all[i], existingData.accountIds, existingData.contactEmails)
       /\ IsSubsequence(strategy.toCreate, all)
       /\ IsSubsequence(strategy.toUpdate, all)

\* C8, amended: a validated record is in toCreate exactly when its user_id
\* with the surrounding whitespace trimmed (the id of its account payload)
\* is not in the existing-account set or its email is not in the
\* existing-contact set, and in toUpdate otherwise, whatever its active_sub;
\* each list keeps the input order.
C8_CreateIffTrimmedIdOrEmailMissing ==
  pc = "categorized" =>
    LET all == filterResult.allRecordsForCreation
        missing(r) == Trim(r.user_id) \notin existingData.accountIds \/ r.email \notin existingData.contactEmails
    IN /\ \A i \in 1..Len(all) :
            /\ InSeq(all[i], strategy.toCreate) <=> missing(all[i])
            /\ InSeq(all[i], strategy.toUpdate) <=> ~missing(all[i])
            /\ SameListWhateverActiveSub(all[i], existingData.accountIds, existingData.contactEmails)
       /\ Len(strategy.toCreate) = Cardinality({i \in 1..Len(all) : missing(all[i])})
       /\ Len(strategy.toUpdate) = Cardinality({i \in 1..Len(all) : ~missing(all[i])})
       /\ IsSubsequence(strategy.toCreate, all)
       /\ IsSubsequence(strategy.toUpdate, all)

\* A record with a padded user_id was put in toUpdate because its trimmed
\* id and its email exist, next to a record put in toCreate.
C8_Witness ==
  /\ pc = "categorized"
  /\ strategy.toCreate # <<>>
  /\ \E i \in 1..Len(strategy.toUpdate) :
       /\ strategy.toUpdate[i].user_id # Trim(strategy.toUpdate[i].user_id)
       /\ strategy.toUpdate[i].user_id \notin existingData.accountIds

\* C9: every record of allRecordsForCreation is in exactly one of toCreate
\* and toUpdate, and |toCreate| + |toUpdate| = |allRecordsForCreation|.
C9_EveryValidatedRecordInOneList ==
  pc = "categorized" =>
    LET all == filterResult.allRecordsForCreation
    IN /\ Len(strategy.toCreate) + Len(strategy.toUpdate) = Len(all)
       /\ strategy.totalOperations = Len(all)
       /\ \A i \in 1..Len(all) : InSeq(all[i], strategy.toCreate) # InSeq(all[i], strategy.toUpdate)

\* Rows failing validation were dropped and the validated ones were split
\* over both lists.
C9_Witness ==
  /\ pc = "categorized"
  /\ Len(filterResult.allRecordsForCreation) < Len(rows)
  /\ strategy.toCreate # <<>>
  /\ strategy.toUpdate # <<>>

\* C10: the second run on the same input, against the remote store as the
\* first run (all of whose creates succeeded) left it, classifies no record
\* as CREATE and every validated record as UPDATE.
C10_SecondRunOnlyUpdates ==
  (runNo = 2 /\ hist.readOk) =>
    /\ strategy.toCreate = <<>>
    /\ strategy.toUpdate = filterResult.allRecordsForCreation

\* The invocation of batchUpdateAccounts made by processDeactivations.
DeactivationCall == CallId("batchUpdateAccounts", 0)

\* processDeactivations invoked batchUpdateAccounts: deactivation writes
\* were emitted.
DeactivationsEmitted == DeactivationCall \in DOMAIN calls

\* C11: every account for which a deactivation write is emitted belongs to
\* a record the same run classified as UPDATE, and to no record it
\* classified as CREATE.
C11_DeactivationsOnlyForUpdateRecords ==
  DeactivationsEmitted =>
    \A i \in 1..Len(calls[DeactivationCall].args) :
      /\ \E j \in 1..Len(strategy.toUpdate) :
           strategy.toUpdate[j].user_id = calls[DeactivationCall].args[i].accountId
      /\ \A j \in 1..Len(strategy.toCreate) :
           strategy.toCreate[j].user_id # calls[DeactivationCall].args[i].accountId

\* The deactivation writes emitted so far (none before batchUpdateAccounts
\* is invoked).
DeactivationWrites == IF DeactivationsEmitted THEN calls[DeactivationCall].args ELSE <<>>

\* The remote store is still as the search for active accounts saw it: the
\* deactivation step is over or at its bulk update, whose request the
\* remote store has not served, and no batch has started.
BeforeDeactivationApplied ==
  /\ pc \in {"deactUpdate", "batchOps"}
  /\ DeactivationsEmitted => calls[DeactivationCall].st # "ok"

\* The remotely active accounts whose business id is the user_id of a
\* locally inactive record.
ActiveAndLocallyInactive ==
  {k \in 1..Len(remote.accounts) :
     /\ remote.accounts[k].active
     /\ \E i \in 1..Len(filterResult.inactiveRecords) :
          filterResult.inactiveRecords[i].user_id = remote.accounts[k].bizId}

\* The write deactivates remote account k with the counts of an inactive
\* record of that business id.
DeactivatesAccount(write, k) ==
  /\ write.hubspotId = remote.accounts[k].id
  /\ write.accountId = remote.accounts[k].bizId
  /\ write.updateData.active_subscription = JsFalse
  /\ \E i \in 1..Len(filterResult.inactiveRecords) :
       /\ filterResult.inactiveRecords[i].user_id = remote.accounts[k].bizId
       /\ write.updateData.weekly_subscriptions = ParseIntOrZero(filterResult.inactiveRecords[i].weekly_sub_count)
       /\ write.updateData.monthly_subscriptions = ParseIntOrZero(filterResult.inactiveRecords[i].monthly_sub_count)
       /\ write.updateData.daily_subscriptions = ParseIntOrZero(filterResult.inactiveRecords[i].daily_sub_count)

\* C12: the deactivation writes are exactly one write per remotely active
\* account whose business id is a key of the map of the locally inactive
\* records; each write targets the remote identifier of its account and
\* sets active_subscription to false with the counts of the inactive record.
C12_DeactivationWritesAreExact ==
  BeforeDeactivationApplied =>
    /\ Len(DeactivationWrites) = Cardinality(ActiveAndLocallyInactive)
    /\ \A k \in ActiveAndLocallyInactive :
         Cardinality({i \in 1..Len(DeactivationWrites) : DeactivatesAccount(DeactivationWrites[i], k)}) = 1
    /\ \A i \in 1..Len(DeactivationWrites) :
         \E k \in ActiveAndLocallyInactive : DeactivatesAccount(DeactivationWrites[i], k)

\* One deactivation write was emitted while the remote store holds a second
\* account, which is not active and got no write.
C12_Witness ==
  /\ pc = "deactUpdate"
  /\ Len(DeactivationWrites) = 1
  /\ \E k \in 1..Len(remote.accounts) : ~remote.accounts[k].active

\* The positions of the input records that belong to batch b.
ChunkPositions(b, n) == {i \in 1..n : (b - 1) * 100 < i /\ i <= b * 100}

\* C13: n records are split into ceil(n/100) batches whose account, contact
\* and association lists have at most 100 entries each; every record is in
\* exactly one batch, at its place: the contact payload of record i is entry
\* ((i-1) mod 100)+1 of batch ((i-1) div 100)+1, and the accounts of a batch
\* are those of the records of its chunk.
C13_BatchesPartitionTheRecords ==
  pc = "grouped" =>
    /\ Len(batches) * 100 >= Len(rows)
    /\ (Len(batches) - 1) * 100 < Len(rows) \/ (Len(batches) = 0 /\ rows = <<>>)
    /\ \A b \in 1..Len(batches) :
         /\ Len(batches[b].accounts) <= 100
         /\ Len(batches[b].contacts) <= 100
         /\ Len(batches[b].associations) <= 100
         /\ batches[b].batchNumber = b
         /\ batches[b].totalBatches = Len(batches)
         /\ Len(batches[b].contacts) = Cardinality(ChunkPositions(b, Len(rows)))
         /\ Len(batches[b].accounts) =
              Cardinality({i \in ChunkPositions(b, Len(rows)) : ~Falsy(Trim(rows[i].user_id))})
         /\ \A p \in 1..Len(batches[b].accounts) :
              \E i \in ChunkPositions(b, Len(rows)) : batches[b].accounts[p].id = Trim(rows[i].user_id)
    /\ \A i \in 1..Len(rows) :
         batches[((i - 1) \div 100) + 1].contacts[((i - 1) % 100) + 1] = mapContactFields(rows[i])

\* A list of 201 records with gaps was split into three batches.
C13_Witness ==
  /\ pc = "grouped"
  /\ Len(batches) = 3
  /\ Len(batches[1].accounts) < Len(batches[1].contacts)
  /\ Len(batches[3].contacts) = 1

\* The association pair is made of the account id and the contact email of
\* input record i, whose two payloads are in the lists of the batch.
PairOfRecord(pair, i, batch) ==
  /\ ~Falsy(Trim(rows[i].user_id))
  /\ pair.accountId = Trim(rows[i].user_id)
  /\ pair.contactEmail = CleanValue(rows[i].email)
  /\ InSeq(mapAccountFields(rows[i]), batch.accounts)
  /\ InSeq(mapContactFields(rows[i]), batch.contacts)

\* C14: each association pair of a batch comes from one record of the chunk
\* of that batch, a record whose account payload and contact payload are in
\* that batch; when every record of the chunk is valid, the three lists are
\* as long as the chunk.
C14_PairsComeFromOneRecordOfTheBatch ==
  pc = "grouped" =>
    \A b \in 1..Len(batches) :
      /\ \A p \in 1..Len(batches[b].associations) :
           \E i \in ChunkPositions(b, Len(rows)) : PairOfRecord(batches[b].associations[p], i, batches[b])
      /\ Len(batches[b].associations) = Len(batches[b].accounts)
      /\ (\A i \in ChunkPositions(b, Len(rows)) : validateRow(rows[i])) =>
           /\ Len(batches[b].accounts) = Cardinality(ChunkPositions(b, Len(rows)))
           /\ Len(batches[b].contacts) = Cardinality(ChunkPositions(b, Len(rows)))
           /\ Len(batches[b].associations) = Cardinality(ChunkPositions(b, Len(rows)))

\* The second of two batches holds fewer pairs than contacts: some of its
\* records produced no account payload.
C14_Witness ==
  /\ pc = "grouped"
  /\ Len(batches) = 2
  /\ Len(batches[2].associations) > 0
  /\ Len(batches[2].associations) < Len(batches[2].contacts)

\* C15: every request sent to the remote store carries at most 100 items:
\* at most 100 values in the IN filter of a lookup, at most 100 payloads in
\* a bulk create or bulk update, the deactivating bulk update included.
C15_RequestsCarryAtMost100Items ==
  \A id \in DOMAIN calls :
    calls[id].st = "sent" => Len(RequestItems(calls[id])) <= 100

\* The row fails validation in the words of the contract: its user_id is
\* missing or blank, or its email is missing, blank or not local@domain.tld.
FailsValidation(row) ==
  \/ row.user_id = Undefined
  \/ Trim(row.user_id) = <<>>
  \/ row.email = Undefined
  \/ Trim(row.email) = <<>>
  \/ ~isValidEmail(row.email)

PassingRows == {rows[i] : i \in {k \in 1..Len(rows) : ~FailsValidation(rows[k])}}

SearchCalls == {id \in DOMAIN calls : calls[id].op \in {"batchSearchAccounts", "batchSearchContacts"}}

\* C16: a row that fails validation is in none of activeRecords,
\* inactiveRecords and allRecordsForCreation, nor in the CREATE or UPDATE
\* list, and every value of an existence lookup, every entry of the
\* deactivating update and every payload and pair of a batch comes from a
\* row that passes validation.
C16_InvalidRowsReachNothingDownstream ==
  /\ \A i \in 1..Len(rows) :
       FailsValidation(rows[i]) =>
         /\ ~InSeq(rows[i], filterResult.activeRecords)
         /\ ~InSeq(rows[i], filterResult.inactiveRecords)
         /\ ~InSeq(rows[i], filterResult.allRecordsForCreation)
         /\ ~InSeq(rows[i], strategy.toCreate)
         /\ ~InSeq(rows[i], strategy.toUpdate)
  /\ \A id \in SearchCalls :
       \A k \in 1..Len(calls[id].args) :
         \E r \in PassingRows :
           calls[id].args[k] = (IF calls[id].op = "batchSearchAccounts" THEN r.user_id ELSE r.email)
  /\ \A k \in 1..Len(DeactivationWrites) :
       \E r \in PassingRows : DeactivationWrites[k].accountId = r.user_id
  /\ \A b \in 1..Len(batches) :
       /\ \A k \in 1..Len(batches[b].batch.accounts) :
            \E r \in PassingRows : batches[b].batch.accounts[k] = mapAccountFields(r)
       /\ \A k \in 1..Len(batches[b].batch.contacts) :
            \E r \in PassingRows : batches[b].batch.contacts[k] = mapContactFields(r)
       /\ \A k \in 1..Len(batches[b].batch.associations) :
            \E r \in PassingRows :
              /\ batches[b].batch.associations[k].accountId = Trim(r.user_id)
              /\ batches[b].batch.associations[k].contactEmail = CleanValue(r.email)

\* A run over a row that fails validation and a row that passes it came to
\* its end with a batch.
C16_Witness ==
  /\ pc = "done"
  /\ \E i \in 1..Len(rows) : FailsValidation(rows[i]) /\ rows[i].user_id # Undefined
  /\ PassingRows # {}
  /\ batches # <<>>

\* The number of rows of the input that fail validation.
RowsDropped == Cardinality({i \in 1..Len(rows) : FailsValidation(rows[i])})

\* The run went through filterRecordsForProcessing and came to its end.
RunCompleted == pc = "done" /\ ~ReturnsEarly(entry, rows)

\* C17: after a run, the rows dropped by validation are counted: a skipped
\* field of this.stats or of the returned value, or the totalReduction of
\* the filter result, equals the number of rows that failed validation.
C17_DroppedRowsAreCountedAsSkipped ==
  RunCompleted =>
    \/ "skipped" \in DOMAIN stats /\ stats["skipped"] = RowsDropped
    \/ "skipped" \in DOMAIN outcome /\ outcome["skipped"] = RowsDropped
    \/ filterResult.totalReduction = RowsDropped

\* The method returned or threw.
RunEnded == pc \in {"done", "failed"}

\* C18: a row that fails validation never aborts the run: when the input
\* holds a row that passes validation and the remote store serves every
\* request, the run completes, and every passing row is in the CREATE or
\* the UPDATE list and its contact payload is in a batch, also when the
\* first row lacks the user_id or the email field.
C18_InvalidRowsNeverAbortTheRun ==
  (RunEnded /\ PassingRows # {}) =>
    /\ pc = "done"
    /\ outcome.kind = "returned"
    /\ "error" \notin DOMAIN outcome
    /\ \A r \in PassingRows :
         /\ InSeq(r, strategy.toCreate) \/ InSeq(r, strategy.toUpdate)
         /\ \E b \in 1..Len(batches) : InSeq(mapContactFields(r), batches[b].batch.contacts)

\* The bulk update calls whose response has arrived.
AnsweredBulkUpdates == {id \in DOMAIN calls : calls[id].op = "batchUpdateAccounts" /\ calls[id].st = "ok"}

\* C19: for every UPDATE batch with at least one account payload that was
\* processed, a bulk update call was submitted to the remote store and the
\* update results of the batch are the response of that call.
C19_UpdateBatchesSubmitBulkUpdate ==
  \A b \in 1..Len(batches) :
    (/\ batches[b].operation = "update"
     /\ Len(batches[b].batch.accounts) >= 1
     /\ batches[b].st = "done") =>
      \E id \in AnsweredBulkUpdates : calls[id].res = batches[b].accountResults

\* The remote identifiers the remote store returned in the responses to the
\* bulk creates and bulk updates of batch b.
ReturnedToBatch(b) ==
  UNION {{calls[id].res[j].id : j \in 1..Len(calls[id].res)} :
           id \in {k \in DOMAIN calls : k[2] = b /\ calls[k].op \in WriteOps /\ calls[k].st = "ok"}}

\* C20: every association create call of a batch uses a contact identifier
\* and an account identifier that the remote store returned in the create
\* or update responses of that batch.
C20_AssociationsUseReturnedIdentifiers ==
  \A b \in 1..Len(batches) :
    \A k \in 1..Len(batches[b].associationInputs) :
      /\ batches[b].associationInputs[k].from \in ReturnedToBatch(b)
      /\ batches[b].associationInputs[k].to \in ReturnedToBatch(b)

\* The positions of the association pairs of batch b whose account id and
\* contact email both have a remote identifier in the results of the batch.
ResolvedPairs(b) ==
  {k \in 1..Len(batches[b].batch.associations) :
     /\ \E i \in 1..Len(batches[b].accountResults) :
          batches[b].accountResults[i].properties.id = batches[b].batch.associations[k].accountId
     /\ \E i \in 1..Len(batches[b].contactResults) :
          batches[b].contactResults[i].properties.email = batches[b].batch.associations[k].contactEmail}

\* The association between the two records of an input exists remotely.
Associated(input) == <<input.from, input.to>> \in remote.associations

\* C21: batchCreateAssociations skips the pairs without a remote identifier
\* in the batch results and attempts every other pair; a pair whose create
\* call fails is left out of the results and the pairs after it are still
\* created; the results are the pairs whose create call succeeded, the batch
\* is a success and errors is not incremented.
C21_AssociationFailuresAreSkippedAndIsolated ==
  \A b \in 1..Len(batches) :
    batches[b].st = "done" =>
      /\ Len(batches[b].associationInputs) = Cardinality(ResolvedPairs(b))
      /\ IsSubsequence(batches[b].associationResults, batches[b].associationInputs)
      /\ \A k \in 1..Len(batches[b].associationResults) : Associated(batches[b].associationResults[k])
      /\ \A k \in 1..Len(batches[b].associationInputs) :
           k > MaxAssocFail => Associated(batches[b].associationInputs[k])
      /\ faults = MaxFaults => Len(batches[b].associationResults) = Len(batches[b].associationInputs)
      /\ faults < MaxFaults => Len(batches[b].associationResults) < Len(batches[b].associationInputs)
      /\ batches[b].result.success
      /\ stats.errors = 0
      /\ stats.associationsCreated = Len(batches[b].associationResults)

\* Of three pairs one was skipped, the create call of the first remaining
\* pair failed and the one after it succeeded.
C21_Witness ==
  /\ pc = "done"
  /\ Len(batches[1].batch.associations) = 3
  /\ Len(batches[1].associationInputs) = 2
  /\ batches[1].associationResults = <<batches[1].associationInputs[2]>>

CreateBatches == {b \in 1..Len(batches) : batches[b].operation = "create"}

\* Both bulk creates of create batch b have been started.
BothCreatesStarted(b) == \A op \in BulkCreateOps : CallId(op, b) \in DOMAIN calls

\* Both bulk creates of create batch b have returned their results.
BothCreatesReturned(b) == \A op \in BulkCreateOps : calls[CallId(op, b)].st = "ok"

\* C22: within a create batch the account bulk create and the contact bulk
\* create are both started before either has returned, and the batch goes on
\* to its associations, or returns a success, only after both have returned.
C22_CreatesRunTogetherAndAreJoined ==
  \A b \in CreateBatches :
    /\ BothCreatesStarted(b)
    /\ batches[b].st = "assoc" => BothCreatesReturned(b)
    /\ Len(batches[b].associationInputs) > 0 => BothCreatesReturned(b)
    /\ (batches[b].st = "done" /\ batches[b].result.success) => BothCreatesReturned(b)

\* A create batch whose two bulk creates returned is creating associations.
C22_Witness ==
  \E b \in CreateBatches :
    /\ batches[b].st = "assoc"
    /\ Len(batches[b].associationInputs) > 0
    /\ BothCreatesReturned(b)

\* The batches of the waves after the one processBatchesWithConcurrency is
\* awaiting, or has awaited and is cooling down from.
BatchesOfLaterWaves ==
  IF pc \in {"waves", "cooldown"}
  THEN {b \in 1..Len(batches) : b > wave.i + maxConcurrency}
  ELSE {}

\* Batch b has issued a remote call: a bulk create request, or the
\* association create calls of its inputs.
HasIssuedRemoteCall(b) ==
  \/ \E op \in BulkCreateOps :
       /\ CallId(op, b) \in DOMAIN calls
       /\ calls[CallId(op, b)].op = op
       /\ calls[CallId(op, b)].args # <<>>
       /\ batches[b].operation = "create"
  \/ batches[b].st = "done" /\ Len(batches[b].associationInputs) > 0

\* C23: batches run in waves of at most 5: no batch of a later wave issues
\* a remote call before every batch of the current wave has completed and
\* the cooldown after the wave has elapsed.
C23_LaterWavesWaitForTheCooldown ==
  \A b \in BatchesOfLaterWaves : ~HasIssuedRemoteCall(b)

ActiveSearch == CallId("searchActiveAccounts", 0)

\* processBatchOperations has started a batch: its bulk creates are issued,
\* or its updates are taken as done.
BatchStarted == batches # <<>> \/ \E id \in DOMAIN calls : id[2] >= 1

\* The deactivation step is complete: with inactive records, the search for
\* the remotely active accounts returned and, when it found accounts to
\* deactivate, the deactivating bulk update returned.
DeactivationStepCompleted ==
  filterResult.inactiveRecords # <<>> =>
    /\ ActiveSearch \in DOMAIN calls
    /\ calls[ActiveSearch].st = "ok"
    /\ Len(identifyDeactivations(createDeactivationMap(filterResult.inactiveRecords),
                                 calls[ActiveSearch].res)) > 0
         => (DeactivationsEmitted /\ calls[DeactivationCall].st = "ok")

\* C24: in every run the deactivation step has completed before the first
\* bulk create or update of a create or update batch is issued.
C24_DeactivationsCompleteBeforeBatches ==
  BatchStarted => DeactivationStepCompleted

\* A bulk create of a batch is pending after a deactivating update returned.
C24_Witness ==
  /\ DeactivationsEmitted
  /\ \E id \in DOMAIN calls : id[2] >= 1 /\ calls[id].st = "sent"

\* refreshAccessToken was invoked and no invocation of it is still running.
RefreshesCompleted ==
  /\ credential.issued > 0
  /\ \A id \in DOMAIN calls : calls[id].st \notin {"refresh", "saving"}

\* C25: after all concurrent invocations of refreshAccessToken completed,
\* the access token in this.tokens, the access token of the API client and
\* the access token in the token file are the same token.
C25_CredentialConsistentAfterRefreshes ==
  RefreshesCompleted =>
    /\ credential.tokens = credential.client
    /\ credential.tokens = credential.tokenFile

\* batchCreateAssociations of batch b returned after the remote store
\* rejected one of its association creates (the catch block of the loop
\* treats every error alike, a 401 included).
AssociationCreateRejected(b) == batches[b].st = "done" /\ faults < MaxFaults

\* C26: the refresh-and-retry rule covers the association create: after an
\* association create was rejected with 401, the token was refreshed and
\* the same create was made once more, so that its result is returned.
C26_AssociationCreateIsRefreshedAndRetried ==
  \A b \in 1..Len(batches) :
    AssociationCreateRejected(b) =>
      /\ credential.issued > 0
      /\ Len(batches[b].associationResults) = Len(batches[b].associationInputs)

\* processCsv went through its read phase and its deactivation step and
\* returned from processBatchOperations.
ProcessCsvCompleted == entry = "processCsv" /\ pc = "done" /\ ~ReturnsEarly(entry, rows)

ContractAccountType(userType) ==
  IF userType = STR_MP THEN STR_MP
  ELSE IF userType = STR_WIX THEN STR_USAMPS
  ELSE userType

\* The value of a payload property after the cleaning loop: absent when
\* undefined, null or '', trimmed when a string.
PayloadValue(v) == IF v = Undefined \/ v = Null \/ v = <<>> THEN Undefined ELSE Trim(v)

\* C28: mapAccountType maps MP to MP and WIX to USAMPS and returns every
\* other value unchanged, and that mapping gives account_type of the
\* account payload and user_type of the contact payload of every record.
C28_TypeMappingPassesOtherValuesThrough ==
  pc = "grouped" =>
    \A i \in 1..Len(rows) :
      /\ mapAccountType(rows[i].user_type) = ContractAccountType(rows[i].user_type)
      /\ batches[((i - 1) \div batchSize) + 1].contacts[((i - 1) % batchSize) + 1].user_type
           = PayloadValue(ContractAccountType(rows[i].user_type))
      /\ \A b \in 1..Len(batches) : \A k \in 1..Len(batches[b].accounts) :
           (HasAccountData(rows[i]) /\ batches[b].accounts[k] = CleanedAccount(rows[i])) =>
             batches[b].accounts[k].account_type = PayloadValue(ContractAccountType(rows[i].user_type))

\* The spellings of true in any letter case.
AnyCaseTrue == {<<t, r, u, e>> : t \in {"t", "T"}, r \in {"r", "R"}, u \in {"u", "U"}, e \in {"e", "E"}}

\* active_sub counts as active in the words of the contract.
CountsAsActive(row) == row.active_sub \in AnyCaseTrue \/ row.active_sub = <<"1">>

\* C29: filterRecordsForProcessing puts every validated record, in input
\* order, in allRecordsForCreation and in exactly one of activeRecords
\* (active_sub is true in any letter case, or 1) and inactiveRecords (any
\* other value, a missing one included), so the sizes of the two add up to
\* the size of allRecordsForCreation.
C29_FilterSplitsValidatedRecordsByActivity ==
  pc = "filtered" =>
    /\ filterResult.allRecordsForCreation = SelectSeq(rows, LAMBDA r : ~FailsValidation(r))
    /\ filterResult.activeRecords = SelectSeq(rows, LAMBDA r : ~FailsValidation(r) /\ CountsAsActive(r))
    /\ filterResult.inactiveRecords = SelectSeq(rows, LAMBDA r : ~FailsValidation(r) /\ ~CountsAsActive(r))
    /\ \A i \in 1..Len(filterResult.allRecordsForCreation) :
         InSeq(filterResult.allRecordsForCreation[i], filterResult.activeRecords)
           # InSeq(filterResult.allRecordsForCreation[i], filterResult.inactiveRecords)
    /\ Len(filterResult.activeRecords) + Len(filterResult.inactiveRecords)
         = Len(filterResult.allRecordsForCreation)

\* Records with TRUE and with 1 were put in activeRecords, a record without
\* active_sub in inactiveRecords.
C29_Witness ==
  /\ pc = "filtered"
  /\ \E i \in 1..Len(filterResult.activeRecords) : filterResult.activeRecords[i].active_sub = <<"T","R","U","E">>
  /\ \E i \in 1..Len(filterResult.activeRecords) : filterResult.activeRecords[i].active_sub = <<"1">>
  /\ \E i \in 1..Len(filterResult.inactiveRecords) : filterResult.inactiveRecords[i].active_sub = Undefined

\* The input holds valid records only, with pairwise distinct user_ids and
\* pairwise distinct emails.
DistinctValidInput ==
  /\ \A i \in 1..Len(rows) : ~FailsValidation(rows[i])
  /\ \A i \in 1..Len(rows) : \A j \in 1..Len(rows) :
       i # j => (rows[i].user_id # rows[j].user_id /\ rows[i].email # rows[j].email)

AccountCreateCalls == {id \in DOMAIN calls : id[1] = "batchCreateAccounts"}

ContactCreateCalls == {id \in DOMAIN calls : id[1] = "batchCreateContacts"}

\* The remote store was empty when the run started: every record it holds
\* was created by a bulk create of the run.
RemoteStartedEmpty ==
  /\ Len(remote.accounts) = SumSeq([b \in 1..Cardinality(AccountCreateCalls) |->
                                      Len(calls[CallId("batchCreateAccounts", b)].res)])
  /\ Len(remote.contacts) = SumSeq([b \in 1..Cardinality(ContactCreateCalls) |->
                                      Len(calls[CallId("batchCreateContacts", b)].res)])

BatchesFor(n) == (n + batchSize - 1) \div batchSize

\* C30: for N valid records with pairwise distinct user_ids and emails, an
\* empty remote store and no failing call, processCsv returns success true,
\* processed N, created N, updated 0, errors 0; it has searched once for
\* exactly the N business ids and the N emails, and issued ceil(N/100)
\* account bulk creates and as many contact bulk creates, which carry the
\* payloads of the records in order, each once.
C30_FreshRunCreatesEveryRecordOnce ==
  (ProcessCsvCompleted /\ DistinctValidInput /\ RemoteStartedEmpty) =>
    /\ outcome = [ kind |-> "returned", success |-> TRUE, processed |-> Len(rows),
                   created |-> Len(rows), updated |-> 0, errors |-> 0 ]
    /\ calls[CallId("batchSearchAccounts", 0)].args = [i \in 1..Len(rows) |-> rows[i].user_id]
    /\ calls[CallId("batchSearchContacts", 0)].args = [i \in 1..Len(rows) |-> rows[i].email]
    /\ \A id \in SearchCalls : id[2] = 0 /\ calls[id].refreshes = 0
    /\ AccountCreateCalls = {CallId("batchCreateAccounts", b) : b \in 1..BatchesFor(Len(rows))}
    /\ ContactCreateCalls = {CallId("batchCreateContacts", b) : b \in 1..BatchesFor(Len(rows))}
    /\ \A id \in AccountCreateCalls \cup ContactCreateCalls : calls[id].st = "ok" /\ calls[id].refreshes = 0
    /\ SumSeq([b \in 1..BatchesFor(Len(rows)) |-> Len(calls[CallId("batchCreateAccounts", b)].args)]) = Len(rows)
    /\ SumSeq([b \in 1..BatchesFor(Len(rows)) |-> Len(calls[CallId("batchCreateContacts", b)].args)]) = Len(rows)
    /\ \A i \in 1..Len(rows) :
         /\ calls[CallId("batchCreateAccounts", ((i - 1) \div batchSize) + 1)].args[((i - 1) % batchSize) + 1]
              = TransformAccount(mapAccountFields(rows[i]))
         /\ calls[CallId("batchCreateContacts", ((i - 1) \div batchSize) + 1)].args[((i - 1) % batchSize) + 1]
              = mapContactFields(rows[i])

\* processCsv returned after creating more than one batch of distinct
\* records in a remote store that was empty.
C30_Witness ==
  /\ ProcessCsvCompleted
  /\ DistinctValidInput
  /\ RemoteStartedEmpty
  /\ Len(rows) > batchSize
  /\ Cardinality(AccountCreateCalls) = 2

\* C31: batchCreateAccounts called with an empty list returns an empty list
\* without error and without a remote call, whatever the state of the
\* client, also with no loaded token and no initialized API client.
C31_EmptyCreateReturnsEmptyInEveryClientState ==
  \A id \in DOMAIN calls :
    (calls[id].op = "batchCreateAccounts" /\ calls[id].args = <<>>) =>
      (calls[id].st = "ok" /\ calls[id].res = <<>> /\ calls[id].err = "")

\* The first row lacks the user_id column or the email column.
FirstRowLacksColumn == rows # <<>> /\ (rows[1].user_id = Undefined \/ rows[1].email = Undefined)

ProcessCsvLeftStart == entry = "processCsv" /\ pc # "start"

\* C32: processCsv performs no remote operation (token check, search,
\* write) unless the parsed input is non-empty and its first row has both
\* the user_id and the email column: without data rows it returns success
\* true with processed 0, without a required column it returns success
\* false with an error message.
C32_NoRemoteOperationOnEmptyOrMalformedInput ==
  ProcessCsvLeftStart =>
    /\ (rows = <<>> \/ FirstRowLacksColumn) =>
         (calls = <<>> /\ ~client /\ hist.writes = {} /\ pc \in {"done", "failed"})
    /\ rows = <<>> =>
         outcome = [ kind |-> "returned", success |-> TRUE, processed |-> 0,
                     created |-> 0, updated |-> 0, errors |-> 0 ]
    /\ FirstRowLacksColumn =>
         (outcome.kind = "returned" /\ outcome.success = FALSE /\ outcome.error # "")
    /\ (calls # <<>> \/ client) => (rows # <<>> /\ ~FirstRowLacksColumn)

\* processCsv returned for an input whose first row lacks a column.
C32_Witness ==
  /\ ProcessCsvLeftStart
  /\ FirstRowLacksColumn
  /\ Len(rows) > 1
  /\ ~FailsValidation(rows[2])
  /\ outcome.kind = "returned"

\* The read phase returned and no write request has been sent since the
\* run started: the remote store is the one the lookups were served from.
ReadPhaseJustReturned == hist.readOk /\ hist.writes = {}

\* C33: the existence sets of the read phase contain every queried business
\* id and every queried email that exists in the remote store, also when
\* the matches of one lookup chunk exceed one result page.
C33_ExistenceSetsHoldEveryExistingIdentifier ==
  ReadPhaseJustReturned =>
    \A i \in 1..Len(filterResult.allRecordsForCreation) :
      /\ (\E k \in 1..Len(remote.accounts) :
            remote.accounts[k].bizId = filterResult.allRecordsForCreation[i].user_id)
           => filterResult.allRecordsForCreation[i].user_id \in existingData.accountIds
      /\ (\E k \in 1..Len(remote.contacts) :
            remote.contacts[k].email = filterResult.allRecordsForCreation[i].email)
           => filterResult.allRecordsForCreation[i].email \in existingData.contactEmails

\* The called method has not passed its read phase yet: no step of the run
\* has touched this.stats.
RunAtItsStart == pc \in {"start", "read"}

\* C34: every run starts from counters that are all zero, also the second
\* call of processCsv or processCSVHighPerformance on the same integration
\* object, so that its summary reflects only its own batches.
C34_EveryRunStartsFromZeroCounters ==
  RunAtItsStart => stats = InitialStats

\* C35: no bulk create carries an account whose business id is in the
\* existing-account set of the read phase, and no bulk contact create
\* carries an email that is in the existing-contact set, also for a record
\* classified CREATE because only one of its two sides is missing remotely.
C35_NoCreateOfWhatTheReadPhaseFound ==
  /\ \A id \in AccountCreateCalls : \A k \in 1..Len(calls[id].args) :
       calls[id].args[k].id \notin existingData.accountIds
  /\ \A id \in ContactCreateCalls : \A k \in 1..Len(calls[id].args) :
       calls[id].args[k].email \notin existingData.contactEmails

\* C36: across the bulk create calls of one run, each account business id
\* appears in at most one account payload and each email in at most one
\* contact payload, also when validated rows share a user_id or an email.
C36_CreatePayloadsAreUniquePerIdentifier ==
  /\ \A c1 \in AccountCreateCalls : \A c2 \in AccountCreateCalls :
       \A k1 \in 1..Len(calls[c1].args) : \A k2 \in 1..Len(calls[c2].args) :
         calls[c1].args[k1].id = calls[c2].args[k2].id => (c1 = c2 /\ k1 = k2)
  /\ \A c1 \in ContactCreateCalls : \A c2 \in ContactCreateCalls :
       \A k1 \in 1..Len(calls[c1].args) : \A k2 \in 1..Len(calls[c2].args) :
         calls[c1].args[k1].email = calls[c2].args[k2].email => (c1 = c2 /\ k1 = k2)

\* Number of records the remote store created for the answered bulk
\* creates of one kind.
RemoteCreated(op) ==
  SumSeq([b \in 1..Len(batches) |->
            IF CallId(op, b) \in DOMAIN calls /\ calls[CallId(op, b)].st = "ok"
            THEN Len(calls[CallId(op, b)].res) ELSE 0])

\* C37: at the end of a run, accountsCreated is the number of account
\* records the remote store created during the run and contactsCreated the
\* number of contact records it created, also when one of the two
\* concurrent bulk writes of a batch succeeded and the other failed.
C37_CreatedCountersMatchTheRemoteStore ==
  (pc = "done" /\ runNo = 1) =>
    /\ stats.accountsCreated = RemoteCreated("batchCreateAccounts")
    /\ stats.contactsCreated = RemoteCreated("batchCreateContacts")

\* The account business ids of the validated records of the input.
ValidatedBusinessIds ==
  {CleanedAccount(filterResult.allRecordsForCreation[i]).id :
     i \in {k \in 1..Len(filterResult.allRecordsForCreation) :
              HasAccountData(filterResult.allRecordsForCreation[k])}}

\* No two validated records of the input have the same business id.
OneRecordPerBusinessId ==
  \A i \in 1..Len(filterResult.allRecordsForCreation) :
    \A j \in 1..Len(filterResult.allRecordsForCreation) :
      i # j => AccountId(filterResult.allRecordsForCreation[i]) # AccountId(filterResult.allRecordsForCreation[j])

\* C38: within one run each account business id contributes at most 1 to
\* accountsUpdated: an inactive record whose account the deactivation step
\* deactivated is not counted again when its UPDATE batch is processed.
\* Stated for inputs with one record per business id, where the counter
\* can exceed the number of business ids only by counting a record twice.
C38_EachBusinessIdCountsOnceAsUpdated ==
  (RunCompleted /\ runNo = 1 /\ OneRecordPerBusinessId) =>
    stats.accountsUpdated <= Cardinality(ValidatedBusinessIds)

\* The contributions of the batches that succeeded; a failed batch counts 0.
ContributionsOfSucceeded(counter) ==
  [b \in 1..Len(batches) |-> IF b \in SucceededBatches THEN Contributions[counter][b] ELSE 0]

\* C39: when processBatchOperations returns, every planned batch has been
\* counted exactly once, in batchesProcessed when it succeeded or in errors
\* when it failed: the two increases add up to the number of planned create
\* and update batches, and a failed batch leaves the created, updated and
\* associated counters unchanged.
C39_EveryBatchCountedOnce ==
  (pc = "done" /\ ~ReturnsEarly(entry, rows)) =>
    /\ Len(batches) = BatchesFor(Len(strategy.toCreate)) + BatchesFor(Len(strategy.toUpdate))
    /\ SucceededBatches \cup FailedBatches = 1..Len(batches)
    /\ stats.batchesProcessed - hist.base.batchesProcessed = Cardinality(SucceededBatches)
    /\ stats.errors - hist.base.errors = Cardinality(FailedBatches)
    /\ (stats.batchesProcessed - hist.base.batchesProcessed) + (stats.errors - hist.base.errors)
         = Len(batches)
    /\ \A counter \in {"accountsCreated", "contactsCreated", "accountsUpdated",
                         "contactsUpdated", "associationsCreated"} :
         stats[counter] - hist.base[counter] = SumSeq(ContributionsOfSucceeded(counter))

\* processBatchOperations returned after a batch succeeded and a create
\* batch failed one of whose two bulk creates had created a record.
C39_Witness ==
  /\ pc = "done"
  /\ SucceededBatches # {}
  /\ \E b \in FailedBatches :
       \E op \in BulkCreateOps :
         /\ CallId(op, b) \in DOMAIN calls
         /\ calls[CallId(op, b)].st = "ok"
         /\ Len(calls[CallId(op, b)].res) > 0

\* A validated row of the input marks the business id as active.
MarkedActive(accountId) ==
  \E i \in 1..Len(rows) :
    /\ ~FailsValidation(rows[i])
    /\ convertToBoolean(rows[i].active_sub)
    /\ rows[i].user_id = accountId

\* C40: a deactivation write is emitted for a business id only if no
\* validated row of the input marks that business id as active: with an
\* active and an inactive row for the same user_id the account is not
\* deactivated.
C40_NoDeactivationOfAnIdMarkedActive ==
  CallId("batchUpdateAccounts", 0) \in DOMAIN calls =>
    \A k \in 1..Len(calls[CallId("batchUpdateAccounts", 0)].args) :
      ~MarkedActive(calls[CallId("batchUpdateAccounts", 0)].args[k].accountId)

====
